---------------------------- MODULE Spec2Model ----------------------------
(***************************************************************************)
(* Model of the background service worker of the "Contextual" extension    *)
(* (src/background.js): the getExplanation message handler, the           *)
(* explanation cache with its hourly sweep, the rate-limiter queue         *)
(* (processQueue / callGeminiAPI) and the output-token ladder of           *)
(* callGeminiAPIInternal.                                                  *)
(*                                                                         *)
(* JavaScript runs one task at a time: every action below is the code that *)
(* runs between two suspension points (an await on chrome.storage, on      *)
(* chrome.scripting.executeScript, on a timer or on fetch).  Strings are   *)
(* TLA+ strings; times are milliseconds as returned by Date.now().         *)
(***************************************************************************)
EXTENDS Integers, Sequences, FiniteSets, TLC

(***************************************************************************)
(* Bounds of the model (not program constants).                            *)
(***************************************************************************)
MaxRequests == 3
CacheRequests == 2
LadderRequests == 2
InputRequests == 2
FairRequests == 2
MaxFetches == 2
CacheTicks == 2
MaxTicks == 1
MaxConfigChanges == 1

(***************************************************************************)
(* Program constants.                                                      *)
(***************************************************************************)
CACHE_TTL == 30 * 60 * 1000
SWEEP_INTERVAL == 60 * 60 * 1000
minRequestInterval == 1000
FETCH_TIMEOUT == 45000
outputTokenSteps == <<1024, 768, 512>>

\* Date.now() when the service worker starts: far from the epoch, so that
\* now - rateLimit.lastRequestTime (initially 0) exceeds every interval.
StartTime == 2 * SWEEP_INTERVAL

(***************************************************************************)
(* String helpers (JavaScript String methods).                             *)
(***************************************************************************)
Max(a, b) == IF a >= b THEN a ELSE b
Min(a, b) == IF a <= b THEN a ELSE b

RECURSIVE Repeat(_, _)
Repeat(s, n) ==
    IF n = 0 THEN ""
    ELSE IF n = 1 THEN s
    ELSE Repeat(s, n \div 2) \o Repeat(s, n - n \div 2)

CharAt(s, i) == SubSeq(s, i, i)
IsSpace(c) == c \in {" ", "\t", "\n"}

startsWith(s, p) == Len(s) >= Len(p) /\ SubSeq(s, 1, Len(p)) = p
endsWith(s, p) == Len(s) >= Len(p) /\ SubSeq(s, Len(s) - Len(p) + 1, Len(s)) = p
includes(s, p) == \E i \in 1..(Len(s) - Len(p) + 1) : SubSeq(s, i, i + Len(p) - 1) = p
substring(s, a, b) == SubSeq(s, Min(a, Len(s)) + 1, Min(b, Len(s)))

RECURSIVE trimStart(_)
trimStart(s) ==
    IF Len(s) > 0 /\ IsSpace(CharAt(s, 1)) THEN trimStart(SubSeq(s, 2, Len(s))) ELSE s
RECURSIVE trimEnd(_)
trimEnd(s) ==
    IF Len(s) > 0 /\ IsSpace(CharAt(s, Len(s))) THEN trimEnd(SubSeq(s, 1, Len(s) - 1)) ELSE s
trim(s) == trimEnd(trimStart(s))

\* s.split(/\s+/).length: one more than the number of maximal whitespace runs.
splitWsCount(s) ==
    1 + Cardinality({i \in 1..Len(s) :
                        /\ IsSpace(CharAt(s, i))
                        /\ (i = 1 \/ ~IsSpace(CharAt(s, i - 1)))})

(***************************************************************************)
(* validateResponse(text, style), background.js 156-196.  The result is    *)
(* the returned string or the message of the Error thrown.  An undefined   *)
(* or null text is falsy like the empty string and takes the same branch.  *)
(***************************************************************************)
Returned(v) == [ok |-> TRUE, value |-> v, message |-> ""]
Thrown(m) == [ok |-> FALSE, value |-> "", message |-> m]

wordCount(trimmedText) == splitWsCount(trimmedText)

meetsLengthRequirement(count, style) ==
    IF style = "Simple" THEN count >= 15 /\ count <= 150 ELSE count >= 30

\* (mutant) any trailing ".." counts as a cut, a full ellipsis included
hasTrailingDots(trimmedText) == endsWith(trimmedText, "..")

hasAbruptCut(trimmedText) ==
    endsWith(trimmedText, "..") /\ ~endsWith(trimmedText, "...")

validateResponse(text, style) ==
    LET trimmedText == trim(text)
    IN  IF text = "" THEN Thrown("Invalid response text")
        ELSE IF style = "" THEN Thrown("Invalid style parameter")
        ELSE IF Len(trimmedText) = 0 THEN Thrown("Response is empty")
        ELSE IF ~meetsLengthRequirement(wordCount(trimmedText), style)
                  \/ hasAbruptCut(trimmedText)
             THEN Thrown("Response appears incomplete")
        ELSE Returned(trimmedText)

(***************************************************************************)
(* estimateTokens and getRelevantContext, background.js 242-279.           *)
(***************************************************************************)
\* (mutant) one token per character
estimateTokensPerChar(text) == Len(text)

\* lines 242-247: Math.ceil(text.length / 4), 0 for a falsy text
estimateTokens(text) == IF text = "" THEN 0 ELSE (Len(text) + 3) \div 4

UpperCase == "ABCDEFGHIJKLMNOPQRSTUVWXYZ"
LowerCase == "abcdefghijklmnopqrstuvwxyz"

lowerChar(c) ==
    IF \E k \in 1..26 : CharAt(UpperCase, k) = c
    THEN CharAt(LowerCase, CHOOSE k \in 1..26 : CharAt(UpperCase, k) = c)
    ELSE c

RECURSIVE toLowerCase(_)
toLowerCase(s) ==
    IF Len(s) = 0 THEN ""
    ELSE IF Len(s) = 1 THEN lowerChar(s)
    ELSE toLowerCase(SubSeq(s, 1, Len(s) \div 2))
            \o toLowerCase(SubSeq(s, Len(s) \div 2 + 1, Len(s)))

\* a.toLowerCase().includes(b.toLowerCase()); a longer needle never matches.
includesIgnoreCase(a, b) ==
    Len(b) <= Len(a) /\ includes(toLowerCase(a), toLowerCase(b))

\* a.toLowerCase().indexOf(b.toLowerCase()), 0-based, -1 when absent.
\* (mutant) the last occurrence instead of the first
lastIndexOf(s, p) ==
    IF Len(p) <= Len(s) /\ includes(s, p)
    THEN (CHOOSE i \in 1..(Len(s) - Len(p) + 1) :
            /\ SubSeq(s, i, i + Len(p) - 1) = p
            /\ \A j \in (i + 1)..(Len(s) - Len(p) + 1) : SubSeq(s, j, j + Len(p) - 1) # p) - 1
    ELSE -1

\* s.indexOf(p), 0-based, -1 when absent
indexOf(s, p) ==
    IF Len(p) <= Len(s) /\ includes(s, p)
    THEN (CHOOSE i \in 1..(Len(s) - Len(p) + 1) :
            /\ SubSeq(s, i, i + Len(p) - 1) = p
            /\ \A j \in 1..(i - 1) : SubSeq(s, j, j + Len(p) - 1) # p) - 1
    ELSE -1

indexOfIgnoreCase(a, b) ==
    IF Len(b) > Len(a) THEN -1 ELSE indexOf(toLowerCase(a), toLowerCase(b))

IsTerminator(c) == c \in {".", "!", "?"}

\* least index >= from holding a terminator (resp. a non-terminator), or Len+1
\* least index in lo..hi whose character is a terminator (term) or is none
\* (~term); 0 when there is no such index
RECURSIVE firstIn(_, _, _, _)
firstIn(s, lo, hi, term) ==
    IF lo > hi THEN 0
    ELSE IF lo = hi THEN (IF IsTerminator(CharAt(s, lo)) = term THEN lo ELSE 0)
    ELSE LET left == firstIn(s, lo, (lo + hi) \div 2, term)
         IN  IF left # 0 THEN left ELSE firstIn(s, (lo + hi) \div 2 + 1, hi, term)

firstOrEnd(s, from, found) ==
    IF from > Len(s) THEN from ELSE IF found = 0 THEN Len(s) + 1 ELSE found

nextTerminator(s, from) == firstOrEnd(s, from, firstIn(s, from, Len(s), TRUE))
nextNonTerminator(s, from) == firstOrEnd(s, from, firstIn(s, from, Len(s), FALSE))

\* the matches of /[^.!?]+[.!?]+/g in s from position from on
RECURSIVE matchSentences(_, _)
matchSentences(s, from) ==
    LET b == nextNonTerminator(s, from)
        t == nextTerminator(s, b)
        e == nextNonTerminator(s, t)
    IN  IF b > Len(s) \/ t > Len(s) THEN <<>>
        ELSE <<SubSeq(s, b, e - 1)>> \o matchSentences(s, e)

\* fullText.match(/[^.!?]+[.!?]+/g) || [fullText]
sentencesOf(fullText) ==
    LET matches == matchSentences(fullText, 1)
    IN  IF matches = <<>> THEN <<fullText>> ELSE matches

RECURSIVE joinWith(_, _)
joinWith(parts, sep) ==
    IF Len(parts) = 0 THEN ""
    ELSE IF Len(parts) = 1 THEN parts[1]
    ELSE parts[1] \o sep \o joinWith(Tail(parts), sep)

\* (mutant) the loop does not stop at the first sentence that matches
lastHit(hits) == CHOOSE i \in hits : \A j \in hits : i >= j

\* lines 261-266: the loop breaks at the first sentence that matches
firstHit(hits) == CHOOSE i \in hits : \A j \in hits : i <= j

getRelevantContext(fullText, selectedText) ==
    IF fullText = "" THEN ""
    ELSE IF selectedText = "" THEN substring(fullText, 0, 800)
    ELSE
      LET sentences == sentencesOf(fullText)
          hits == {i \in 1..Len(sentences) : includesIgnoreCase(sentences[i], selectedText)}
      IN  IF hits = {}
          THEN LET index == indexOfIgnoreCase(fullText, selectedText)
               IN  IF index = -1 THEN substring(fullText, 0, 800)
                   ELSE substring(fullText, Max(0, index - 600),
                                  Min(Len(fullText), index + Len(selectedText) + 600))
          ELSE LET selectedSentenceIdx == firstHit(hits) - 1
                   startIdx == Max(0, selectedSentenceIdx - 3)
                   endIdx == Min(Len(sentences), selectedSentenceIdx + 4)
               IN  trim(joinWith(SubSeq(sentences, startIdx + 1, endIdx), " "))

(***************************************************************************)
(* Inputs of the model: what the UI may send, what the settings popup may  *)
(* store, what the page and the upstream API may answer.                   *)
(***************************************************************************)
LongText == Repeat("aaaaaaaaaa", 100)

\* a selection that alone is estimated above the 1200-token guard of line 329
HugeText == Repeat(LongText, 5)

PageText == "A mutex is a lock. It guards state! Done."

Explanation30 == " " \o Repeat("w ", 29) \o "end.\n"
ExplanationShort == "Too short."

Payload(selectedText, style) == [selectedText |-> selectedText, style |-> style]

\* chrome.scripting.executeScript: rejects, or resolves with the string that
\* getVisibleText returned in the page.
ScriptRejected == [rejected |-> TRUE, result |-> ""]
ScriptResult(text) == [rejected |-> FALSE, result |-> text]

\* the strings getVisibleText returns instead of page text (lines 42, 104, 110, 112)
NoContentSentinel == "No content available on this page."
NoReadableTextSentinel == "No readable text found on this page."
UnableToExtractSentinel == "Unable to extract text from this page."
Sentinels == {NoContentSentinel, NoReadableTextSentinel, UnableToExtractSentinel}

\* chrome.storage.sync.get: resolves with the stored items, or rejects.
StorageRead == [rejected |-> FALSE, message |-> ""]
StorageRejected == [rejected |-> TRUE, message |-> "Storage is unavailable."]

\* What one fetch (and the reading of its body) ends in.
FetchOk(content) == [kind |-> "ok", hasChoices |-> TRUE, content |-> content]
FetchOkNoChoices == [kind |-> "ok", hasChoices |-> FALSE, content |-> ""]
FetchFailed(kind) == [kind |-> kind, hasChoices |-> FALSE, content |-> ""]

\* message of the Error a failed fetch attempt raises
fetchError(outcome) ==
    CASE outcome.kind = "status" -> "API Error: 500 - upstream"
      [] outcome.kind = "malformed" -> "Unexpected token < in JSON at position 0"
      [] outcome.kind = "network" -> "Failed to fetch"
      [] outcome.kind = "abort" -> "The user aborted a request."

\* The inputs explored under each specification.
CacheInputs ==
    [requests |-> CacheRequests,
     payloads |-> {Payload("a", "Simple"), Payload("a-Simple", "Simple"),
                   Payload("", "Simple"), Payload(LongText, "Technical")},
     settings |-> [apiKey |-> {"", "sk-or-k"}, modelName |-> {"m", "Simple-m"}],
     storageOutcomes |-> {StorageRead},
     scriptOutcomes |-> {ScriptResult(PageText),
                         ScriptResult("Unable to extract text from this page.")},
     fetchOutcomes |-> {FetchOk(Explanation30), FetchOk(ExplanationShort)},
     tickSteps |-> {minRequestInterval, CACHE_TTL},
     ticks |-> CacheTicks]

QueueInputs ==
    [requests |-> MaxRequests,
     payloads |-> {Payload("a", "Simple")},
     settings |-> [apiKey |-> {"sk-or-k", "k"}, modelName |-> {"m"}],
     storageOutcomes |-> {StorageRead},
     scriptOutcomes |-> {ScriptResult(PageText)},
     fetchOutcomes |-> {FetchOk(Explanation30), FetchFailed("network")},
     tickSteps |-> {minRequestInterval, SWEEP_INTERVAL},
     ticks |-> MaxTicks]

LadderInputs ==
    [requests |-> LadderRequests,
     payloads |-> {Payload("a", "Technical"), Payload(HugeText, "Technical")},
     settings |-> [apiKey |-> {"sk-or-k", "k"}, modelName |-> {"m"}],
     storageOutcomes |-> {StorageRead, StorageRejected},
     scriptOutcomes |-> {ScriptResult(PageText), ScriptResult("")},
     fetchOutcomes |-> {FetchOk(Explanation30), FetchOk(ExplanationShort), FetchOkNoChoices,
                        FetchFailed("status"), FetchFailed("malformed"),
                        FetchFailed("network"), FetchFailed("abort")},
     tickSteps |-> {FETCH_TIMEOUT, SWEEP_INTERVAL},
     ticks |-> MaxTicks]

\* requests that meet in the queue, with dispatches that resolve and that fail
FairInputs ==
    [requests |-> FairRequests,
     payloads |-> {Payload("a", "Simple")},
     settings |-> [apiKey |-> {"sk-or-k", "k"}, modelName |-> {"m"}],
     storageOutcomes |-> {StorageRead, StorageRejected},
     scriptOutcomes |-> {ScriptResult(PageText), ScriptRejected},
     fetchOutcomes |-> {FetchOk(Explanation30), FetchOk(ExplanationShort),
                        FetchOkNoChoices, FetchFailed("network")},
     tickSteps |-> {SWEEP_INTERVAL},
     ticks |-> MaxTicks]

\* requests sent by the panel
ExplainInputs ==
    [requests |-> MaxFetches,
     payloads |-> {Payload("a", "Simple"), Payload("a", "Technical")},
     settings |-> [apiKey |-> {"sk-or-k"}, modelName |-> {"m"}],
     storageOutcomes |-> {StorageRead},
     scriptOutcomes |-> {ScriptResult(PageText)},
     fetchOutcomes |-> {FetchOk(Explanation30), FetchFailed("abort")},
     tickSteps |-> {FETCH_TIMEOUT, CACHE_TTL},
     ticks |-> CacheTicks]

\* requests with a missing configuration, an unknown style or a page without text
InputInputs ==
    [requests |-> InputRequests,
     payloads |-> {Payload("a", "Simple"), Payload("a", "Casual")},
     settings |-> [apiKey |-> {"", "sk-or-k"}, modelName |-> {"", "m"}],
     storageOutcomes |-> {StorageRead},
     scriptOutcomes |-> {ScriptResult(PageText)} \cup {ScriptResult(t) : t \in Sentinels},
     fetchOutcomes |-> {FetchOk(Explanation30)},
     tickSteps |-> {minRequestInterval, SWEEP_INTERVAL},
     ticks |-> MaxTicks]

InputsOf(p) ==
    CASE p = "input" -> InputInputs
      [] p = "explain" -> ExplainInputs
      [] p = "fair" -> FairInputs
      [] p = "cache" -> CacheInputs
      [] p = "queue" -> QueueInputs
      [] p = "ladder" -> LadderInputs

\* line 510: fullText: pageText.substring(0, 2000)
fullTextOf(pageText) == substring(pageText, 0, 2000)

(***************************************************************************)
(* State.                                                                  *)
(***************************************************************************)
VARIABLES
    explain,          \* explanation.js: the panel's style, text, fetches and display
    panel,            \* content.js: the trigger icon and the explanation iframe
    probe,            \* the pure function call under test, if any: inputs and result
    profile,          \* which inputs the environment draws from (never changes)
    now,              \* Date.now()
    ticks,            \* number of clock advances so far (bounded)
    storage,          \* chrome.storage.sync: apiKey and modelName
    configChanges,    \* number of setStorage messages so far (bounded)
    explanationCache, \* the Map: key -> [data, timestamp]
    nextSweep,        \* when the setInterval callback is next due
    rateLimit,        \* lastRequestTime, queue, processing
    runs,             \* processQueue activations suspended at an await
    reqs,             \* the getExplanation handler invocations
    cacheOrigin,      \* history: key -> the request triple that stored the entry
    storedFor,        \* history: request triple -> what it stored last, and when
    enqueueLog,       \* history: request ids in the order callGeminiAPI queued them
    dispatchLog,      \* history: request ids in the order their dispatch started
    lastDone          \* history: the dispatch that completed last

vars == <<explain, panel, probe, profile, now, ticks, storage, configChanges, explanationCache, nextSweep,
          rateLimit, runs, reqs, cacheOrigin, storedFor, enqueueLog, dispatchLog, lastDone>>

RequestIds == 1..MaxRequests

EmptyMap == [k \in {} |-> 0]

NoResponse == [status |-> "none", data |-> "", cached |-> FALSE, message |-> ""]
SuccessResponse(data, cached) ==
    [status |-> "success", data |-> data, cached |-> cached, message |-> ""]
ErrorResponse(message) ==
    [status |-> "error", data |-> "", cached |-> FALSE,
     message |-> IF message = "" THEN "Unknown error" ELSE message]

NoParams == [apiKey |-> "", modelName |-> "", selectedText |-> "", fullText |-> "", style |-> ""]

IdleRequest ==
    [pc |-> "idle", selectedText |-> "", style |-> "", apiKey |-> "", modelName |-> "",
     response |-> NoResponse, sent |-> 0, extractions |-> 0, enqueued |-> FALSE,
     hitOrigin |-> <<>>, seenAge |-> -1, seenData |-> "", storedWhile |-> ""]

NoDone ==
    [req |-> 0, start |-> -1, end |-> -1, prevEnd |-> -1, prevOk |-> FALSE, ok |-> FALSE,
     fetches |-> <<>>, errs |-> <<>>, message |-> "", okRung |-> 0]

DelayRun(wakeAt) ==
    [phase |-> "delay", wakeAt |-> wakeAt, req |-> 0, params |-> NoParams, rung |-> 0,
     fetchStart |-> -1, start |-> -1, prevEnd |-> -1, prevOk |-> FALSE,
     fetches |-> <<>>, errs |-> <<>>]

\* no pure function call is under test
NoProbe ==
    [applied |-> FALSE, words |-> 0, sep |-> "", ending |-> "", pad |-> "",
     text |-> "", style |-> "", result |-> Thrown("")]

\* content.js after initializeExtension (lines 1-16, 519-527): the icon is
\* hidden, the iframe is created hidden and has not loaded yet.  activatedWith
\* and delivered are history: the selection at each activation of the icon,
\* and the selectedText of each fetchExplanation message posted to the iframe.
InitialPanel ==
    [isPopupOpen |-> FALSE, isLoaded |-> FALSE, pendingMessage |-> "",
     lastSelection |-> "", iconShown |-> FALSE,
     activatedWith |-> <<>>, delivered |-> <<>>]

\* explanation.js after DOMContentLoaded (lines 25-26): fetches is the list of
\* the calls of fetchExplanation so far (unanswered: its timer fired while
\* the background service had not answered), display what explanation-result
\* shows and the fetch that put it there.
InitialExplain ==
    [currentStyle |-> "Simple", currentSelectedText |-> "", fetches |-> <<>>,
     display |-> [kind |-> "empty", fetch |-> 0, data |-> ""]]

SystemInit(p) ==
    /\ profile = p
    /\ explain = InitialExplain
    /\ panel = InitialPanel
    /\ now = StartTime
    /\ ticks = 0
    /\ storage = [apiKey |-> "sk-or-k", modelName |-> "m"]
    /\ configChanges = 0
    /\ explanationCache = EmptyMap
    /\ nextSweep = StartTime + SWEEP_INTERVAL
    /\ rateLimit = [lastRequestTime |-> 0, queue |-> <<>>, processing |-> FALSE]
    /\ runs = <<>>
    /\ reqs = [id \in RequestIds |-> IdleRequest]
    /\ cacheOrigin = EmptyMap
    /\ storedFor = EmptyMap
    /\ enqueueLog = <<>>
    /\ dispatchLog = <<>>
    /\ lastDone = NoDone

InitOf(p) ==
    /\ probe = NoProbe
    /\ SystemInit(p)

\* The part of the state the handler code reads and writes, as one record.
State ==
    [now |-> now, storage |-> storage, explanationCache |-> explanationCache, rateLimit |-> rateLimit,
     runs |-> runs, reqs |-> reqs, cacheOrigin |-> cacheOrigin, storedFor |-> storedFor,
     enqueueLog |-> enqueueLog, dispatchLog |-> dispatchLog, lastDone |-> lastDone]

Install(s) ==
    /\ explanationCache' = s.explanationCache
    /\ rateLimit' = s.rateLimit
    /\ runs' = s.runs
    /\ reqs' = s.reqs
    /\ cacheOrigin' = s.cacheOrigin
    /\ storedFor' = s.storedFor
    /\ enqueueLog' = s.enqueueLog
    /\ dispatchLog' = s.dispatchLog
    /\ lastDone' = s.lastDone

RemoveAt(seq, k) == SubSeq(seq, 1, k - 1) \o SubSeq(seq, k + 1, Len(seq))

mapSet(m, k, v) == [x \in DOMAIN m \cup {k} |-> IF x = k THEN v ELSE m[x]]

(***************************************************************************)
(* The cache, background.js 3-15 and 474-479.                              *)
(***************************************************************************)
\* (mutant) a key that leaves the model identifier out
cacheKeyWithoutModel(selectedText, style, modelName) ==
    selectedText \o "-" \o style


cacheKey(selectedText, style, modelName) ==
    selectedText \o "-" \o style \o "-" \o modelName

\* (mutant) a lookup that does not look at the age of the entry
cacheHitAnyAge(cache, key, t) == key \in DOMAIN cache

\* cached && (Date.now() - cached.timestamp < CACHE_TTL)
cacheHit(cache, key, t) ==
    key \in DOMAIN cache /\ t - cache[key].timestamp < CACHE_TTL

\* (mutant) a sweep that also deletes the entry whose age is exactly the TTL
sweepKeepsYounger(entry, t) == t - entry.timestamp < CACHE_TTL

\* the setInterval callback: which entries survive a sweep at time t
sweepKeeps(entry, t) == ~(t - entry.timestamp > CACHE_TTL)

(***************************************************************************)
(* callGeminiAPIInternal, background.js 281-433: the synchronous part up   *)
(* to the first fetch, and the output-token ladder.                        *)
(***************************************************************************)
maxContextLength == 1500

articleSummaryOf(fullText) ==
    LET summarySentences == sentencesOf(fullText)
        s4 == trim(substring(joinWith(SubSeq(summarySentences, 1,
                                             Min(4, Len(summarySentences))), " "),
                             0, 400))
    IN  IF s4 = "" THEN trim(substring(fullText, 0, 400)) ELSE s4

estimatedTokensOf(params) ==
    estimateTokens(substring(getRelevantContext(params.fullText, params.selectedText),
                             0, maxContextLength))
      + estimateTokens(params.selectedText)
      + estimateTokens(articleSummaryOf(params.fullText))
      + 150

\* lines 284-331: the message of the Error thrown before the ladder, or ""
inputError(params) ==
    IF params.fullText = ""
        THEN "Invalid page content. Please try refreshing the page."
    ELSE IF params.selectedText = ""
        THEN "Invalid selected text. Please make a new selection."
    ELSE IF params.apiKey = ""
        THEN "No API key provided. Please configure it in the extension settings."
    ELSE IF params.modelName = ""
        THEN "No model name provided. Please configure it in the extension settings."
    ELSE IF estimatedTokensOf(params) > 1200
        THEN "Input too long. Please select a shorter phrase or try on a simpler page."
    ELSE ""

\* lines 376-381: the message of the Error thrown inside a rung before its fetch, or ""
rungError(params) ==
    IF params.apiKey = "" \/ ~startsWith(params.apiKey, "sk-or-")
        THEN "Invalid or missing OpenRouter API key. Please set a valid key in the extension settings."
    ELSE IF params.modelName = ""
        THEN "Model name not set. Please set it in the extension settings."
    ELSE ""

\* (mutant) a loop that skips a rung
rungAfterSkipping(i) == i + 2

\* the rung the loop turns to after rung i has failed (i++)
rungAfter(i) == i + 1

\* the loop condition i < outputTokenSteps.length (rungs are numbered from 1 here)
ladderContinues(i) == i <= Len(outputTokenSteps)

\* (mutant) throwing the first error caught instead of the last
surfacedFirstError(errs) == errs[1]

\* throw lastError: the error raised by the rung that failed last
surfacedError(errs) == errs[Len(errs)]

\* The loop of lines 374-430 entered at rung i with the errors caught so far:
\* it runs until a rung issues its fetch or until the rungs are exhausted.
RECURSIVE ladderFrom(_, _, _)
ladderFrom(params, i, errs) ==
    IF ~ladderContinues(i)
        THEN [kind |-> "throw", rung |-> i, errs |-> errs, message |-> surfacedError(errs)]
    ELSE IF rungError(params) # ""
        THEN ladderFrom(params, rungAfter(i), Append(errs, rungError(params)))
    ELSE [kind |-> "fetch", rung |-> i, errs |-> errs, message |-> ""]

\* the function up to its first await, given what the input checks found
startAfterInputChecks(params, message) ==
    IF message # ""
        THEN [kind |-> "throw", rung |-> 0, errs |-> <<>>, message |-> message]
    ELSE ladderFrom(params, 1, <<>>)

callGeminiAPIInternalStart(params) == startAfterInputChecks(params, inputError(params))

(***************************************************************************)
(* The getExplanation handler, background.js 462-549.                      *)
(***************************************************************************)
sendResponse(s, id, response) ==
    [s EXCEPT !.reqs[id].pc = "done",
              !.reqs[id].response = response,
              !.reqs[id].sent = @ + 1]

\* (mutant) the cache is written before the text is validated
handlerStoresUnvalidated(s, id, key, v) ==
    sendResponse(
        [s EXCEPT !.explanationCache = mapSet(@, key, [data |-> v.value, timestamp |-> s.now]),
                  !.cacheOrigin = mapSet(@, key, <<s.reqs[id].selectedText, s.reqs[id].style,
                                                   s.reqs[id].modelName>>)],
        id, IF v.ok THEN SuccessResponse(v.value, FALSE) ELSE ErrorResponse(v.message))

\* lines 521-534: validateResponse threw (v.ok false) or returned v.value,
\* which is cached under key and sent
handlerAfterValidation(s, id, key, v) ==
    LET r == s.reqs[id]
    IN  IF ~v.ok THEN sendResponse(s, id, ErrorResponse(v.message))
        ELSE sendResponse(
                [s EXCEPT !.explanationCache =
                              mapSet(@, key, [data |-> v.value, timestamp |-> s.now]),
                          !.cacheOrigin =
                              mapSet(@, key, <<r.selectedText, r.style, r.modelName>>),
                          !.storedFor =
                              mapSet(@, <<r.selectedText, r.style, r.modelName>>,
                                     [data |-> v.value, at |-> s.now]),
                          !.reqs[id].storedWhile = s.storage.modelName],
                id, SuccessResponse(v.value, FALSE))

\* (mutant) the model identifier is read again when the key is needed
keyModelNameReread(s, id) == s.storage.modelName

\* line 474: the key is built once, from the modelName read at line 466
keyModelName(s, id) == s.reqs[id].modelName

\* lines 519-534: the handler after callGeminiAPI resolved with responseData
handlerAfterDispatch(s, id, responseData) ==
    IF ~responseData.hasChoices
        THEN sendResponse(s, id,
                ErrorResponse("Cannot read properties of undefined (reading '0')"))
    ELSE handlerAfterValidation(s, id,
            cacheKey(s.reqs[id].selectedText, s.reqs[id].style, keyModelName(s, id)),
            validateResponse(responseData.content, s.reqs[id].style))

\* (mutant) a catch block that does not answer
handlerSwallowsFailure(s, id, message) == s

\* lines 536-545: the catch block of the handler
handlerAfterFailure(s, id, message) == sendResponse(s, id, ErrorResponse(message))

\* (mutant) a rate limiter that does not reject the caller of a failed dispatch
handlerNeverRejected(s, id, ok, result) ==
    IF ok THEN handlerAfterDispatch(s, id, result.data) ELSE s

\* the awaiting handler continues with the outcome of callGeminiAPI (line 516)
handlerResumes(s, id, ok, result) ==
    IF ok THEN handlerAfterDispatch(s, id, result.data)
    ELSE handlerAfterFailure(s, id, result.message)

(***************************************************************************)
(* The rate limiter, background.js 199-239.                                *)
(***************************************************************************)
\* (mutant) a guard that does not look at the processing flag
processQueueIgnoresProcessing(rl) == Len(rl.queue) = 0

\* line 208: if (rateLimit.processing || rateLimit.queue.length === 0) return
processQueueReturns(rl) == rl.processing \/ Len(rl.queue) = 0

\* (mutant) pop() instead of shift()
queuePop(queue) ==
    [item |-> queue[Len(queue)], rest |-> SubSeq(queue, 1, Len(queue) - 1)]

\* line 219: rateLimit.queue.shift()
queueShift(queue) == [item |-> Head(queue), rest |-> Tail(queue)]

\* (mutant) a queue that drops a request whose parameters are already queued
queuePushUnique(queue, item) ==
    IF \E i \in 1..Len(queue) : queue[i].params = item.params
    THEN queue ELSE Append(queue, item)

\* line 236: rateLimit.queue.push(...)
queuePush(queue, item) == Append(queue, item)

\* (mutant) a dispatch that never records its time
lastRequestTimeKept(rl, ok, t) == rl.lastRequestTime

\* lines 223 and 225-226: lastRequestTime after a dispatch that ended at time t
lastRequestTimeAfter(rl, ok, t) == IF ok THEN t ELSE rl.lastRequestTime

\* (mutant) a finally block that leaves the flag set after a rejected dispatch
processingKeptOnFailure(ok) == ~ok

\* line 228: rateLimit.processing = false, in the finally block
processingAfterDispatch(ok) == FALSE

\* lines 211-213
delayOf(rl, t) == Max(0, minRequestInterval - (t - rl.lastRequestTime))

RECURSIVE processQueue(_)
RECURSIVE finishDispatch(_, _, _, _)

\* lines 219-222: take the next item and run callGeminiAPIInternal up to its
\* first await.  shift() on an empty queue yields undefined, the destructuring
\* throws outside the try block and the activation ends there.
\* the activation that dispatches item, callGeminiAPIInternal having run up
\* to st
FetchRun(s, item, st) ==
    [phase |-> "fetch", wakeAt |-> -1, req |-> item.req,
     params |-> item.params, rung |-> st.rung, fetchStart |-> s.now,
     start |-> s.now, prevEnd |-> s.lastDone.end, prevOk |-> s.lastDone.ok,
     fetches |-> IF st.kind = "fetch" THEN <<outputTokenSteps[st.rung]>> ELSE <<>>,
     errs |-> st.errs]

\* lines 220-222 for the item taken: st is where callGeminiAPIInternal stands
\* at its first await (a fetch in flight) or the Error it threw before
dispatchItem(s, item, st) ==
    IF st.kind = "fetch"
    THEN [s EXCEPT !.runs = Append(@, FetchRun(s, item, st))]
    ELSE finishDispatch(s, FetchRun(s, item, st), FALSE,
                        [message |-> st.message, data |-> NoParams])

dispatchShifted(s, sh) ==
    dispatchItem([s EXCEPT !.rateLimit.queue = sh.rest,
                           !.dispatchLog = Append(@, sh.item.req)],
                 sh.item, callGeminiAPIInternalStart(sh.item.params))

dispatchNext(s) ==
    IF Len(s.rateLimit.queue) = 0 THEN s
    ELSE dispatchShifted(s, queueShift(s.rateLimit.queue))

\* lines 223-230: callGeminiAPIInternal settled; resolve or reject the caller,
\* then the finally block; the caller (the handler) continues in a microtask.
finishDispatch(s, run, ok, result) ==
    LET done == [req |-> run.req, start |-> run.start, end |-> s.now,
                 prevEnd |-> run.prevEnd, prevOk |-> run.prevOk, ok |-> ok,
                 fetches |-> run.fetches, errs |-> run.errs,
                 message |-> result.message, okRung |-> IF ok THEN run.rung ELSE 0]
        s1 == [s EXCEPT !.rateLimit.lastRequestTime = lastRequestTimeAfter(s.rateLimit, ok, s.now),
                        !.rateLimit.processing = processingAfterDispatch(ok),
                        !.lastDone = done]
    IN  handlerResumes(processQueue(s1), run.req, ok, result)

processQueue(s) ==
    IF processQueueReturns(s.rateLimit) THEN s
    ELSE
      LET s1 == [s EXCEPT !.rateLimit.processing = TRUE]
      IN  IF delayOf(s.rateLimit, s.now) > 0
          THEN [s1 EXCEPT !.runs = Append(@, DelayRun(s.now + delayOf(s.rateLimit, s.now)))]
          ELSE dispatchNext(s1)

\* lines 234-239
callGeminiAPI(s, id, params) ==
    processQueue([s EXCEPT !.rateLimit.queue = queuePush(@, [req |-> id, params |-> params]),
                           !.enqueueLog = Append(@, id),
                           !.reqs[id].enqueued = TRUE])

(***************************************************************************)
(* Actions: one per task the event loop can run.                           *)
(***************************************************************************)
\* A getExplanation message arrives (line 462); the handler runs up to its
\* first await, chrome.storage.sync.get(['apiKey']).
Receive(id, payload) ==
    /\ reqs[id].pc = "idle"
    /\ id <= InputsOf(profile).requests
    /\ IF id = 1 THEN TRUE ELSE reqs[id - 1].pc # "idle"
    /\ reqs' = [reqs EXCEPT ![id].pc = "getApiKey",
                            ![id].selectedText = payload.selectedText,
                            ![id].style = payload.style]
    /\ UNCHANGED <<explain, panel, probe, profile, now, ticks, storage, configChanges, explanationCache, nextSweep,
                   rateLimit, runs, cacheOrigin, storedFor, enqueueLog, dispatchLog, lastDone>>

\* line 465 resolves; line 466 starts the second read.
GotApiKey(id, outcome) ==
    /\ reqs[id].pc = "getApiKey"
    /\ reqs' = IF outcome.rejected
               THEN handlerAfterFailure(State, id, outcome.message).reqs
               ELSE [reqs EXCEPT ![id].pc = "getModelName", ![id].apiKey = storage.apiKey]
    /\ UNCHANGED <<explain, panel, probe, profile, now, ticks, storage, configChanges, explanationCache, nextSweep,
                   rateLimit, runs, cacheOrigin, storedFor, enqueueLog, dispatchLog, lastDone>>

\* (mutant) a handler that goes to the cache without checking the configuration
lookupWithoutConfigCheck(s, id, modelName) ==
    LET key == cacheKey(s.reqs[id].selectedText, s.reqs[id].style, modelName)
    IN  IF cacheHit(s.explanationCache, key, s.now)
        THEN sendResponse([s EXCEPT !.reqs[id].modelName = modelName,
                                    !.reqs[id].hitOrigin = s.cacheOrigin[key]], id,
                          SuccessResponse(s.explanationCache[key].data, TRUE))
        ELSE [s EXCEPT !.reqs[id].modelName = modelName,
                       !.reqs[id].pc = "extract", !.reqs[id].extractions = @ + 1]

\* lines 466-487: the second read resolves, the configuration is checked, the
\* cache is looked up and, on a miss, executeScript is called.
configAndLookup(s, id, modelName) ==
    LET r == s.reqs[id]
        key == cacheKey(r.selectedText, r.style, modelName)
        triple == <<r.selectedText, r.style, modelName>>
        s1 == [s EXCEPT !.reqs[id].modelName = modelName,
                        !.reqs[id].seenAge =
                            IF triple \in DOMAIN s.storedFor
                            THEN s.now - s.storedFor[triple].at ELSE -1,
                        !.reqs[id].seenData =
                            IF triple \in DOMAIN s.storedFor
                            THEN s.storedFor[triple].data ELSE ""]
    IN  IF r.apiKey = ""
            THEN sendResponse([s EXCEPT !.reqs[id].modelName = modelName], id,
                    ErrorResponse("OpenRouter API Key not set. Please set it in the extension settings."))
        ELSE IF modelName = ""
            THEN sendResponse([s EXCEPT !.reqs[id].modelName = modelName], id,
                    ErrorResponse("Model name not set. Please set it in the extension settings."))
        ELSE IF cacheHit(s.explanationCache, key, s.now)
            THEN sendResponse([s1 EXCEPT !.reqs[id].hitOrigin = s.cacheOrigin[key]], id,
                    SuccessResponse(s.explanationCache[key].data, TRUE))
        ELSE [s1 EXCEPT !.reqs[id].pc = "extract", !.reqs[id].extractions = @ + 1]

GotModelName(id, outcome) ==
    /\ reqs[id].pc = "getModelName"
    /\ Install(IF outcome.rejected
               THEN handlerAfterFailure(State, id, outcome.message)
               ELSE configAndLookup(State, id, storage.modelName))
    /\ UNCHANGED <<explain, panel, probe, profile, now, ticks, storage, configChanges, nextSweep>>

\* lines 488-516: executeScript settled; the page text is checked and the
\* request is handed to callGeminiAPI.
afterExtraction(s, id, outcome) ==
    LET r == s.reqs[id]
        pageText == outcome.result
    IN  IF outcome.rejected
            THEN sendResponse(s, id,
                    ErrorResponse("Failed to access page content. Please refresh the page and try again."))
        ELSE IF pageText = ""
            THEN sendResponse(s, id,
                    ErrorResponse("Could not extract text from the page. Please refresh and try again."))
        ELSE IF Len(trim(pageText)) = 0
            THEN sendResponse(s, id,
                    ErrorResponse("No readable content found on this page. Please try a different page."))
        ELSE IF includes(pageText, "Unable to extract text") \/ includes(pageText, "No content available")
            THEN sendResponse(s, id,
                    ErrorResponse("This page does not contain readable text content. Please try a different page."))
        ELSE callGeminiAPI([s EXCEPT !.reqs[id].pc = "awaitApi"], id,
                           [apiKey |-> r.apiKey, modelName |-> r.modelName,
                            selectedText |-> r.selectedText,
                            fullText |-> fullTextOf(pageText),
                            style |-> r.style])

Extracted(id, outcome) ==
    /\ reqs[id].pc = "extract"
    /\ Install(afterExtraction(State, id, outcome))
    /\ UNCHANGED <<explain, panel, probe, profile, now, ticks, storage, configChanges, nextSweep>>

\* line 216: the rate-limit timer of a processQueue activation fires.
TimerFired(k) ==
    /\ runs[k].phase = "delay"
    /\ now >= runs[k].wakeAt
    /\ Install(dispatchNext([State EXCEPT !.runs = RemoveAt(@, k)]))
    /\ UNCHANGED <<explain, panel, probe, profile, now, ticks, storage, configChanges, nextSweep>>

\* lines 404-429: the fetch of the current rung (and the reading of its body)
\* settles.  An abort needs the 45 s timer of line 402 to have fired.
\* lines 427-432: the rung of run failed; st is where the loop stands next,
\* at the fetch of a lower rung or at throw lastError
afterFailedRung(s, run, st) ==
    IF st.kind = "fetch"
    THEN [s EXCEPT !.runs = Append(@,
             [run EXCEPT !.rung = st.rung, !.errs = st.errs, !.fetchStart = s.now,
                         !.fetches = Append(@, outputTokenSteps[st.rung])])]
    ELSE finishDispatch(s, [run EXCEPT !.errs = st.errs], FALSE,
                        [message |-> st.message, data |-> NoParams])

afterSettledFetch(s, run, outcome) ==
    IF outcome.kind = "ok"
    THEN finishDispatch(s, run, TRUE, [message |-> "", data |-> outcome])
    ELSE afterFailedRung(s, run,
            ladderFrom(run.params, rungAfter(run.rung),
                       Append(run.errs, fetchError(outcome))))

afterFetch(s, k, outcome) ==
    afterSettledFetch([s EXCEPT !.runs = RemoveAt(@, k)], s.runs[k], outcome)

FetchDone(k, outcome) ==
    /\ runs[k].phase = "fetch"
    /\ outcome.kind = "abort" => now - runs[k].fetchStart >= FETCH_TIMEOUT
    /\ Install(afterFetch(State, k, outcome))
    /\ UNCHANGED <<explain, panel, probe, profile, now, ticks, storage, configChanges, nextSweep>>

\* lines 8-15: the hourly setInterval callback.
Sweep ==
    /\ now >= nextSweep
    /\ nextSweep' = nextSweep + SWEEP_INTERVAL
    /\ explanationCache' =
          [k \in {x \in DOMAIN explanationCache : sweepKeeps(explanationCache[x], now)}
              |-> explanationCache[k]]
    /\ cacheOrigin' = [k \in DOMAIN explanationCache' |-> cacheOrigin[k]]
    /\ UNCHANGED <<explain, panel, probe, profile, now, ticks, storage, configChanges, rateLimit, runs, reqs, storedFor,
                   enqueueLog, dispatchLog, lastDone>>

\* lines 450-460: the settings popup stores a value.
SetStorage(key, value) ==
    /\ configChanges < MaxConfigChanges
    /\ configChanges' = configChanges + 1
    /\ storage' = [storage EXCEPT ![key] = value]
    /\ storage' # storage
    /\ UNCHANGED <<explain, panel, probe, profile, now, ticks, explanationCache, nextSweep, rateLimit, runs, reqs,
                   cacheOrigin, storedFor, enqueueLog, dispatchLog, lastDone>>

\* Time passes.
Tick(d) ==
    /\ ticks < InputsOf(profile).ticks
    /\ ticks' = ticks + 1
    /\ now' = now + d
    /\ UNCHANGED <<explain, panel, probe, profile, storage, configChanges, explanationCache, nextSweep, rateLimit,
                   runs, reqs, cacheOrigin, storedFor, enqueueLog, dispatchLog, lastDone>>

Next ==
    \/ \E id \in RequestIds, payload \in InputsOf(profile).payloads : Receive(id, payload)
    \/ \E id \in RequestIds, outcome \in InputsOf(profile).storageOutcomes :
          GotApiKey(id, outcome)
    \/ \E id \in RequestIds, outcome \in InputsOf(profile).storageOutcomes :
          GotModelName(id, outcome)
    \/ \E id \in RequestIds, outcome \in InputsOf(profile).scriptOutcomes :
          Extracted(id, outcome)
    \/ \E k \in 1..Len(runs) : TimerFired(k)
    \/ \E k \in 1..Len(runs), outcome \in InputsOf(profile).fetchOutcomes :
          FetchDone(k, outcome)
    \/ Sweep
    \/ \E key \in {"apiKey", "modelName"} :
          \E value \in InputsOf(profile).settings[key] : SetStorage(key, value)
    \/ \E d \in InputsOf(profile).tickSteps : Tick(d)

Init == InitOf("cache")
InitQueue == InitOf("queue")
InitLadder == InitOf("ladder")
InitInput == InitOf("input")

Spec == Init /\ [][Next]_vars
SpecQueue == InitQueue /\ [][Next]_vars
SpecLadder == InitLadder /\ [][Next]_vars
SpecInput == InitInput /\ [][Next]_vars

\* line 216: time passes until the rate-limit timer of a waiting activation
\* is due (setTimeout always fires in the end)
AwaitTimer ==
    /\ \E k \in 1..Len(runs) : runs[k].phase = "delay" /\ now < runs[k].wakeAt
    /\ now' = (CHOOSE w \in {runs[k].wakeAt : k \in 1..Len(runs)} : w > now)
    /\ UNCHANGED <<explain, panel, probe, profile, ticks, storage, configChanges, explanationCache,
                   nextSweep, rateLimit, runs, reqs, cacheOrigin, storedFor, enqueueLog,
                   dispatchLog, lastDone>>

NextFair == Next \/ AwaitTimer

\* the steps that do not wait for the user: a timer fires, a fetch settles
\* (by its 45 s abort at the latest), a storage read or the script injection
\* completes
Progress ==
    \/ AwaitTimer
    \/ \E k \in 1..Len(runs) : TimerFired(k)
    \/ \E k \in 1..Len(runs), outcome \in InputsOf(profile).fetchOutcomes :
          FetchDone(k, outcome)
    \/ \E id \in RequestIds, outcome \in InputsOf(profile).storageOutcomes :
          GotApiKey(id, outcome)
    \/ \E id \in RequestIds, outcome \in InputsOf(profile).storageOutcomes :
          GotModelName(id, outcome)
    \/ \E id \in RequestIds, outcome \in InputsOf(profile).scriptOutcomes :
          Extracted(id, outcome)

\* ENABLED Progress, written out from the guards of its actions
progressPending ==
    \/ runs # <<>>
    \/ \E id \in RequestIds : reqs[id].pc \in {"getApiKey", "getModelName", "extract"}

\* Weak fairness of Progress.  Every request takes a bounded number of these
\* steps, so WF_vars(Progress) says that again and again none of them is
\* pending; it is stated in that form for the steps other than AwaitTimer.
Fairness ==
    /\ WF_vars(AwaitTimer)
    /\ []<>(~progressPending)

InitFair == InitOf("fair")

SpecQueueFair == InitFair /\ [][NextFair]_vars /\ Fairness

(***************************************************************************)
(* validateResponse on its own: the upstream texts it may be given, built  *)
(* from a number of words, the whitespace between them, what the last word *)
(* ends in and the whitespace around the whole.                            *)
(***************************************************************************)
WordCounts == {0, 1, 14, 15, 16, 29, 30, 31, 150, 151}
Separators == {" ", " \n "}
Endings == {"", ".", "..", "...", "!"}
Paddings == {"", " \n"}
Styles == {"Simple", "Technical"}

wordsText(n, sep) == IF n = 0 THEN "" ELSE Repeat("w" \o sep, n - 1) \o "w"

ValidateProbes ==
    {[applied |-> FALSE, words |-> n, sep |-> sep, ending |-> e, pad |-> pad,
      text |-> pad \o wordsText(n, sep) \o e \o pad, style |-> style,
      result |-> Thrown("")] :
        n \in WordCounts, sep \in Separators, e \in Endings, pad \in Paddings,
        style \in Styles}

InitValidate ==
    /\ probe \in ValidateProbes
    /\ SystemInit("validate")

\* line 521: validateResponse(explanation, request.payload.style)
ApplyValidate ==
    /\ ~probe.applied
    /\ probe' = [probe EXCEPT !.applied = TRUE,
                              !.result = validateResponse(probe.text, probe.style)]
    /\ UNCHANGED <<explain, panel, profile, now, ticks, storage, configChanges, explanationCache,
                   nextSweep, rateLimit, runs, reqs, cacheOrigin, storedFor,
                   enqueueLog, dispatchLog, lastDone>>

NextValidate == ApplyValidate

SpecValidate == InitValidate /\ [][NextValidate]_vars

(***************************************************************************)
(* The content script, content.js: the trigger icon and the explanation    *)
(* panel (an iframe).                                                      *)
(***************************************************************************)
MaxActivations == 3
PageSelections == {"", "a", "b"}

backgroundVars ==
    <<explain, probe, profile, now, ticks, storage, configChanges, explanationCache, nextSweep,
      rateLimit, runs, reqs, cacheOrigin, storedFor, enqueueLog, dispatchLog, lastDone>>

\* (mutant) togglePopup without the early return of line 146
togglePopupAlways(pn, show) ==
    IF show
    THEN IF pn.isLoaded
         THEN [pn EXCEPT !.isPopupOpen = TRUE,
                         !.delivered = Append(@, pn.lastSelection)]
         ELSE [pn EXCEPT !.isPopupOpen = TRUE, !.pendingMessage = pn.lastSelection]
    ELSE [pn EXCEPT !.isPopupOpen = FALSE]

\* togglePopup(show), lines 145-205
togglePopup(pn, show) ==
    IF show = pn.isPopupOpen THEN pn
    ELSE IF show
    THEN IF pn.isLoaded
         THEN [pn EXCEPT !.isPopupOpen = TRUE,
                         !.delivered = Append(@, pn.lastSelection)]
         ELSE [pn EXCEPT !.isPopupOpen = TRUE, !.pendingMessage = pn.lastSelection]
    ELSE [pn EXCEPT !.isPopupOpen = FALSE]

\* handleSelectionChange, lines 312-331 (after its debounce)
SelectionChanged(selectedText) ==
    /\ panel' = IF Len(selectedText) > 0 /\ Len(selectedText) < 1000
                THEN [panel EXCEPT !.lastSelection = selectedText, !.iconShown = TRUE]
                ELSE [panel EXCEPT !.iconShown = FALSE]
    /\ panel' # panel
    /\ UNCHANGED backgroundVars

\* the click and keydown (Enter, Space) handlers of the icon, lines 77-92
IconActivated ==
    /\ panel.iconShown
    /\ Len(panel.activatedWith) < MaxActivations
    /\ panel' = [togglePopup([panel EXCEPT !.activatedWith = Append(@, panel.lastSelection)],
                             TRUE)
                    EXCEPT !.iconShown = FALSE]
    /\ UNCHANGED backgroundVars

\* iframe.onload, lines 127-135
IframeLoaded ==
    /\ ~panel.isLoaded
    /\ panel' = IF panel.pendingMessage # ""
                THEN [panel EXCEPT !.isLoaded = TRUE,
                                   !.delivered = Append(@, panel.pendingMessage),
                                   !.pendingMessage = ""]
                ELSE [panel EXCEPT !.isLoaded = TRUE]
    /\ UNCHANGED backgroundVars

\* Escape while the panel is open (lines 184-189), or the closeSidebar message
\* of the panel (lines 449-455)
PanelClosed ==
    /\ panel.isPopupOpen
    /\ panel' = togglePopup(panel, FALSE)
    /\ UNCHANGED backgroundVars

NextPanel ==
    \/ \E selectedText \in PageSelections : SelectionChanged(selectedText)
    \/ IconActivated
    \/ IframeLoaded
    \/ PanelClosed

InitPanel == InitOf("panel")

SpecPanel == InitPanel /\ [][NextPanel]_vars

(***************************************************************************)
(* getRelevantContext on its own, and the cap callGeminiAPIInternal puts   *)
(* on its result (lines 302-303).  The page texts are built so that where  *)
(* the selection occurs is known from how the text was built.              *)
(***************************************************************************)
Key == "MuTex"
Selections == {"mutex", "MUTEX"}

\* sentence k (from 0) of a page: it holds Key when k is in hits, and fill
\* further words; every sentence but the first follows a space
sentenceText(k, hits, fill) ==
    (IF k > 0 THEN " " ELSE "") \o "s" \o CharAt("0123456789", k + 1)
        \o Repeat(" word", fill)
        \o (IF k \in hits THEN " has " \o Key ELSE " is plain")
        \o (IF k % 2 = 0 THEN "." ELSE "?!")

\* sentences lo..hi one after the other, sep between two of them
RECURSIVE sentencesText(_, _, _, _, _)
sentencesText(lo, hi, hits, fill, sep) ==
    IF lo > hi THEN ""
    ELSE IF lo = hi THEN sentenceText(lo, hits, fill)
    ELSE sentenceText(lo, hits, fill) \o sep \o sentencesText(lo + 1, hi, hits, fill, sep)

leastOf(S) == CHOOSE i \in S : \A j \in S : i <= j

\* a page of n sentences, those in hits holding the selection
SentenceProbe(n, hits, fill, sel) ==
    LET first == leastOf(hits)
        lo == Max(0, first - 3)
        hi == Min(n - 1, first + 3)
        joined == sentencesText(lo, hi, hits, fill, " ")
    IN  [applied |-> FALSE, family |-> "sentences", n |-> n, first |-> first,
         fullText |-> sentencesText(0, n - 1, hits, fill, ""), selectedText |-> sel,
         expected |-> IF lo > 0 THEN SubSeq(joined, 2, Len(joined)) ELSE joined,
         result |-> "", snippet |-> ""]

\* head sentences of 50 characters each, p characters in all
HeadText(p) == Repeat(Repeat("a", 48) \o ". ", p \div 50)

\* a page whose sentences do not hold the selection: it occurs (0-based) at
\* index at, in the unterminated tail or across the end of the last sentence
WindowProbe(p, q, sel, at) ==
    LET fullText == HeadText(p) \o "tail " \o Key \o " " \o Repeat("t", q) \o " " \o Key
    IN  [applied |-> FALSE, family |-> "window", n |-> 0, first |-> at,
         fullText |-> fullText, selectedText |-> sel,
         expected |-> SubSeq(fullText, Max(0, at - 600) + 1,
                             Min(Len(fullText), at + Len(sel) + 600)),
         result |-> "", snippet |-> ""]

\* a page in which the selection does not occur
AbsentProbe(fullText) ==
    [applied |-> FALSE, family |-> "absent", n |-> 0, first |-> -1,
     fullText |-> fullText, selectedText |-> "zebra",
     expected |-> SubSeq(fullText, 1, Min(800, Len(fullText))),
     result |-> "", snippet |-> ""]

SentenceCounts == {1, 5, 10}
HeadLengths == {100, 650, 1200}
TailLengths == {0, 100, 700}

ContextProbes ==
    {SentenceProbe(n, {i, j}, 0, sel) :
        n \in SentenceCounts, i \in 0..9, j \in 0..9, sel \in Selections}
    \cup {SentenceProbe(4, {i}, 95, sel) : i \in 0..3, sel \in Selections}
    \cup {WindowProbe(p, q, sel, p + 5) :
            p \in HeadLengths, q \in TailLengths, sel \in Selections}
    \cup {WindowProbe(p, q, "A. TAIL", p - 3) : p \in HeadLengths, q \in TailLengths}
    \cup {AbsentProbe(WindowProbe(p, q, "", 0).fullText) :
            p \in HeadLengths, q \in TailLengths}
    \cup {AbsentProbe(sentencesText(0, n - 1, {}, 0, "")) : n \in SentenceCounts}

InitContext ==
    /\ probe \in {pr \in ContextProbes : pr.n = 0 \/ pr.first < pr.n}
    /\ SystemInit("context")

\* lines 302-303: relevantContext and truncatedFullText
ApplyContext ==
    /\ ~probe.applied
    /\ probe' = [probe EXCEPT
                    !.applied = TRUE,
                    !.result = getRelevantContext(probe.fullText, probe.selectedText),
                    !.snippet = substring(getRelevantContext(probe.fullText,
                                                             probe.selectedText),
                                          0, maxContextLength)]
    /\ UNCHANGED <<explain, panel, profile, now, ticks, storage, configChanges, explanationCache,
                   nextSweep, rateLimit, runs, reqs, cacheOrigin, storedFor,
                   enqueueLog, dispatchLog, lastDone>>

NextContext == ApplyContext

SpecContext == InitContext /\ [][NextContext]_vars

(***************************************************************************)
(* getVisibleText, lines 18-115, over an abstract page:                    *)
(*   hasTarget   a content container or document.body exists (line 39)     *)
(*   hasBody     document.body exists                                      *)
(*   nodes       textContent of the text nodes the filter accepts          *)
(*   throwsAt    the call of walker.nextNode() that throws, 0 for none     *)
(*   outerThrows createTreeWalker throws (caught at line 105)              *)
(*   targetText  targetElement.textContent                                 *)
(*   bodyText    document.body.textContent                                 *)
(***************************************************************************)
maxLength == 2000

\* s.replace(/\s+/g, ' ')
RECURSIVE collapseWhitespace(_)
collapseWhitespace(s) ==
    IF Len(s) = 0 THEN ""
    ELSE IF Len(s) = 1 THEN (IF IsSpace(s) THEN " " ELSE s)
    ELSE LET h == Len(s) \div 2
             l == collapseWhitespace(SubSeq(s, 1, h))
             r == collapseWhitespace(SubSeq(s, h + 1, Len(s)))
         IN  IF endsWith(l, " ") /\ startsWith(r, " ")
             THEN l \o SubSeq(r, 2, Len(r))
             ELSE l \o r

\* (mutant) no truncation of the extracted text
capNothing(s) == s

\* .substring(0, maxLength), lines 100, 103 and 109
capText(s) == substring(s, 0, maxLength)

\* the loop of lines 89-95, from the i-th call of walker.nextNode()
RECURSIVE walk(_, _, _, _, _)
walk(nodes, throwsAt, i, totalLength, textParts) ==
    IF throwsAt = i THEN [threw |-> TRUE, textParts |-> textParts]
    ELSE IF i > Len(nodes) \/ totalLength >= maxLength
    THEN [threw |-> FALSE, textParts |-> textParts]
    ELSE LET text == trim(nodes[i])
         IN  IF text # ""
             THEN walk(nodes, throwsAt, i + 1, totalLength + Len(text),
                       Append(textParts, text))
             ELSE walk(nodes, throwsAt, i + 1, totalLength, textParts)

\* lines 105-113: the final fallback
outerFallback(page) ==
    LET fallbackText == IF page.hasBody THEN trim(page.bodyText) ELSE ""
    IN  IF capText(fallbackText) # "" THEN capText(fallbackText)
        ELSE UnableToExtractSentinel

\* lines 86-104, given the outcome of the loop
afterWalk(page, walked) ==
    IF walked.threw THEN capText(trim(page.targetText))
    ELSE LET result == capText(collapseWhitespace(joinWith(walked.textParts, " ")))
         IN  IF result # "" THEN result ELSE NoReadableTextSentinel

getVisibleText(page) ==
    IF ~page.hasTarget THEN NoContentSentinel
    ELSE IF page.outerThrows THEN outerFallback(page)
    ELSE afterWalk(page, walk(page.nodes, page.throwsAt, 1, 0, <<>>))

WordyText == Repeat("word ", 300)
PaddedText == "  " \o Repeat("word  \n ", 400) \o "  "

NodeLists ==
    {<<>>, <<"  abc \n def ">>, <<"abc", "def">>,
     <<WordyText, WordyText, "unread">>, <<PaddedText>>}

ElementTexts == {"", "  abc def  ", PaddedText}

Pages ==
    {[hasTarget |-> t, hasBody |-> b, nodes |-> n, throwsAt |-> k, outerThrows |-> o,
      targetText |-> tt, bodyText |-> bt] :
        t \in BOOLEAN, b \in BOOLEAN, n \in NodeLists, k \in 0..2, o \in BOOLEAN,
        tt \in ElementTexts, bt \in ElementTexts}

ExtractProbes ==
    {[applied |-> FALSE, page |-> pg, result |-> "", fullText |-> ""] :
        pg \in {g \in Pages : (g.hasBody => g.hasTarget)
                              /\ (~g.hasTarget => g.nodes = <<>> /\ g.targetText = "")
                              /\ (~g.hasBody => g.bodyText = "")}}

InitExtract ==
    /\ probe \in ExtractProbes
    /\ SystemInit("extract")

\* lines 481-491 and 507-513: the injected getVisibleText and apiParams.fullText
ApplyExtract ==
    /\ ~probe.applied
    /\ probe' = [probe EXCEPT !.applied = TRUE,
                              !.result = getVisibleText(probe.page),
                              !.fullText = fullTextOf(getVisibleText(probe.page))]
    /\ UNCHANGED <<explain, panel, profile, now, ticks, storage, configChanges, explanationCache,
                   nextSweep, rateLimit, runs, reqs, cacheOrigin, storedFor,
                   enqueueLog, dispatchLog, lastDone>>

NextExtract == ApplyExtract

SpecExtract == InitExtract /\ [][NextExtract]_vars

(***************************************************************************)
(* The explanation panel, explanation.js, together with the background     *)
(* service that answers its getExplanation messages.                       *)
(***************************************************************************)
PANEL_TIMEOUT == 45000

\* showLoader, lines 139-141
showLoader(e, f) == [e EXCEPT !.display = [kind |-> "loader", fetch |-> f, data |-> ""]]

\* displayResult, lines 150-179
displayResult(e, f, text) ==
    [e EXCEPT !.display = [kind |-> "result", fetch |-> f, data |-> text]]

\* the catch block of lines 107-133 with displayError, lines 181-194
displayError(e, f, message) ==
    [e EXCEPT !.display = [kind |-> "error", fetch |-> f, data |-> message]]

\* fetchExplanation up to its first await, lines 67-79
fetchExplanation(e) ==
    IF e.currentSelectedText = "" THEN e
    ELSE showLoader([e EXCEPT !.fetches = Append(@, [phase |-> "getStorage", req |-> 0,
                                                     selectedText |-> "", style |-> "",
                                                     sentAt |-> -1, unanswered |-> FALSE])],
                    Len(e.fetches) + 1)

\* the message listener, lines 40-45
PanelFetch(selectedText) ==
    /\ Len(explain.fetches) < MaxFetches
    /\ explain' = fetchExplanation([explain EXCEPT !.currentSelectedText = selectedText])
    /\ UNCHANGED <<panel, probe, profile, now, ticks, storage, configChanges,
                   explanationCache, nextSweep, rateLimit, runs, reqs, cacheOrigin,
                   storedFor, enqueueLog, dispatchLog, lastDone>>

\* setStyle, lines 57-65
PanelSetStyle(style) ==
    /\ Len(explain.fetches) < MaxFetches
    /\ explain.currentStyle # style
    /\ explain' = fetchExplanation([explain EXCEPT !.currentStyle = style])
    /\ UNCHANGED <<panel, probe, profile, now, ticks, storage, configChanges,
                   explanationCache, nextSweep, rateLimit, runs, reqs, cacheOrigin,
                   storedFor, enqueueLog, dispatchLog, lastDone>>

\* the request the background service receives next
nextRequest == CHOOSE id \in RequestIds : reqs[id].pc = "idle" /\ \A j \in 1..(id - 1) : reqs[j].pc # "idle"

\* lines 73-95: the getStorage answer arrives; the key is checked and the
\* getExplanation message is sent with the text and style current by now
PanelKeyRead(f) ==
    /\ explain.fetches[f].phase = "getStorage"
    /\ IF storage.apiKey = "" \/ ~startsWith(storage.apiKey, "sk-or-")
       THEN /\ explain' = displayError([explain EXCEPT !.fetches[f].phase = "settled"], f,
                              "Please verify your API key in the extension settings.")
            /\ reqs' = reqs
       ELSE /\ explain' = [explain EXCEPT
                              !.fetches[f] = [phase |-> "waiting", req |-> nextRequest,
                                              selectedText |-> explain.currentSelectedText,
                                              style |-> explain.currentStyle,
                                              sentAt |-> now, unanswered |-> FALSE]]
            /\ reqs' = [reqs EXCEPT ![nextRequest].pc = "getApiKey",
                                    ![nextRequest].selectedText = explain.currentSelectedText,
                                    ![nextRequest].style = explain.currentStyle]
    /\ UNCHANGED <<panel, probe, profile, now, ticks, storage, configChanges,
                   explanationCache, nextSweep, rateLimit, runs, cacheOrigin,
                   storedFor, enqueueLog, dispatchLog, lastDone>>

\* lines 98-106: the answer of the background service reaches the panel
PanelResponse(f) ==
    /\ explain.fetches[f].phase = "waiting"
    /\ reqs[explain.fetches[f].req].pc = "done"
    /\ explain' =
          LET response == reqs[explain.fetches[f].req].response
              e == [explain EXCEPT !.fetches[f].phase = "settled"]
          IN  IF response.status = "success" /\ response.data # ""
              THEN displayResult(e, f, response.data)
              ELSE displayError(e, f, response.message)
    /\ UNCHANGED <<panel, probe, profile, now, ticks, storage, configChanges,
                   explanationCache, nextSweep, rateLimit, runs, reqs, cacheOrigin,
                   storedFor, enqueueLog, dispatchLog, lastDone>>

\* lines 93-95: the 45 s timer of Promise.race fires first
PanelTimeout(f) ==
    /\ explain.fetches[f].phase = "waiting"
    /\ now - explain.fetches[f].sentAt >= PANEL_TIMEOUT
    /\ explain' = displayError(
                      [explain EXCEPT !.fetches[f].phase = "timedOut",
                                      !.fetches[f].unanswered =
                                          reqs[explain.fetches[f].req].pc # "done"],
                      f, "Request timed out after 45 seconds")
    /\ UNCHANGED <<panel, probe, profile, now, ticks, storage, configChanges,
                   explanationCache, nextSweep, rateLimit, runs, reqs, cacheOrigin,
                   storedFor, enqueueLog, dispatchLog, lastDone>>

NextExplain ==
    \/ \E payload \in InputsOf(profile).payloads : PanelFetch(payload.selectedText)
    \/ \E payload \in InputsOf(profile).payloads : PanelSetStyle(payload.style)
    \/ \E f \in 1..Len(explain.fetches) : PanelKeyRead(f)
    \/ \E f \in 1..Len(explain.fetches) : PanelResponse(f)
    \/ \E f \in 1..Len(explain.fetches) : PanelTimeout(f)
    \/ \E id \in RequestIds, outcome \in InputsOf(profile).storageOutcomes :
          GotApiKey(id, outcome)
    \/ \E id \in RequestIds, outcome \in InputsOf(profile).storageOutcomes :
          GotModelName(id, outcome)
    \/ \E id \in RequestIds, outcome \in InputsOf(profile).scriptOutcomes :
          Extracted(id, outcome)
    \/ \E k \in 1..Len(runs) : TimerFired(k)
    \/ \E k \in 1..Len(runs), outcome \in InputsOf(profile).fetchOutcomes :
          FetchDone(k, outcome)
    \/ \E d \in InputsOf(profile).tickSteps : Tick(d)

InitExplain == InitOf("explain")

SpecExplain == InitExplain /\ [][NextExplain]_vars

(***************************************************************************)
(* withRetry(fn, maxRetries, baseDelay, originalParams), lines 118-153.    *)
(* probe holds the locals of one call: attempt, lastError, fn (the text    *)
(* the replaced operation passes as fullText, or the caller's operation),  *)
(* and contextReductionFactor as its denominator (the factor is 1/den,     *)
(* so Math.floor(500 * factor) is 500 \div den for the values reached).    *)
(* log and waits are history: the outcome of each invocation of fn and     *)
(* each delay slept.                                                       *)
(***************************************************************************)
RetryCeilings == {1, 2, 3}
BaseDelays == {500, 1000}

NoOriginalParams == [present |-> FALSE, fullText |-> ""]
OriginalParams(fullText) == [present |-> TRUE, fullText |-> fullText]

Resolved(value, isString) ==
    [ok |-> TRUE, value |-> value, isString |-> isString, message |-> ""]
Rejected(message) ==
    [ok |-> FALSE, value |-> "", isString |-> FALSE, message |-> message]

EllipsisText == "It waits... and then it goes on for more than fifty characters."

FnOutcomes ==
    {Resolved(Explanation30, TRUE), Resolved(ExplanationShort, TRUE),
     Resolved(EllipsisText, TRUE), Resolved("[object]", FALSE),
     Rejected("Token limit exceeded for this model"), Rejected("HTTP 500")}

CallersFn == [replaced |-> FALSE, fullText |-> ""]

RetryProbes ==
    {[maxRetries |-> m, baseDelay |-> b, originalParams |-> o,
      attempt |-> 1, phase |-> "call", fn |-> CallersFn, den |-> 1,
      lastError |-> "", result |-> "", log |-> <<>>, waits |-> <<>>] :
        m \in RetryCeilings, b \in BaseDelays,
        o \in {NoOriginalParams, OriginalParams(""), OriginalParams(PageText),
               OriginalParams(LongText)}}

\* lines 125-133: what modifiedFn throws for a resolved result, "" for none
modifiedFnError(attempt, outcome) ==
    IF attempt > 1 /\ outcome.isString
    THEN IF Len(outcome.value) < 50 THEN "Response too short"
         ELSE IF includes(outcome.value, "...") /\ ~endsWith(outcome.value, "...")
         THEN "Response contains mid-sentence ellipsis"
         ELSE ""
    ELSE ""

\* the error caught at line 135, "" when the attempt returns
caughtError(attempt, outcome) ==
    IF outcome.ok THEN modifiedFnError(attempt, outcome) ELSE outcome.message

\* (mutant) every failure shrinks the context
anyFailure(message) == TRUE

\* line 137: error.message.includes('Token limit exceeded')
isTokenLimitExceeded(message) == includes(message, "Token limit exceeded")

\* line 137: the whole condition of the reduction
reduces(r, message) ==
    isTokenLimitExceeded(message) /\ r.originalParams.present
                                  /\ r.originalParams.fullText # ""

\* lines 138-143
afterReduction(r) ==
    [r EXCEPT !.den = r.den * 5,
              !.fn = [replaced |-> TRUE,
                      fullText |-> substring(r.originalParams.fullText, 0,
                                             500 \div (r.den * 5))]]

\* lines 136-148, for the error caught in this attempt
afterCatch(r, message) ==
    LET c == IF reduces(r, message) THEN afterReduction(r) ELSE r
    IN  IF r.attempt = r.maxRetries
        THEN [c EXCEPT !.lastError = message, !.phase = "threw"]
        ELSE [c EXCEPT !.lastError = message, !.phase = "wait",
                       !.waits = Append(@, r.baseDelay * 2 ^ (r.attempt - 1))]

\* one attempt of the loop, lines 121-148, up to its return, its throw or
\* the start of its delay
attemptOf(r, outcome, message) ==
    IF message = ""
    THEN [r EXCEPT !.phase = "returned", !.result = outcome.value]
    ELSE afterCatch(r, message)

InitRetry ==
    /\ probe \in RetryProbes
    /\ SystemInit("retry")

Attempt(outcome) ==
    /\ probe.phase = "call"
    /\ probe' = attemptOf([probe EXCEPT !.log = Append(@, [outcome |-> outcome,
                                                            fn |-> probe.fn])],
                          outcome, caughtError(probe.attempt, outcome))
    /\ UNCHANGED <<explain, panel, profile, now, ticks, storage, configChanges, explanationCache,
                   nextSweep, rateLimit, runs, reqs, cacheOrigin, storedFor,
                   enqueueLog, dispatchLog, lastDone>>

\* line 148: the delay has elapsed, the loop goes on
BackoffElapsed ==
    /\ probe.phase = "wait"
    /\ probe' = [probe EXCEPT !.phase = "call", !.attempt = @ + 1]
    /\ UNCHANGED <<explain, panel, profile, now, ticks, storage, configChanges, explanationCache,
                   nextSweep, rateLimit, runs, reqs, cacheOrigin, storedFor,
                   enqueueLog, dispatchLog, lastDone>>

NextRetry ==
    \/ \E outcome \in FnOutcomes : Attempt(outcome)
    \/ BackoffElapsed

SpecRetry == InitRetry /\ [][NextRetry]_vars

(***************************************************************************)
(* The token guard of callGeminiAPIInternal, lines 302-331, on the         *)
(* requests that content.js and the handler let through: a selection of    *)
(* fewer than 1000 characters and a fullText of at most 2000.              *)
(***************************************************************************)
SelectionLengths == {1, 250, 500, 999}
PageLengths == {1, 1000, 1999, 2000}
LeadLengths == {0, 700, 1500}

Sentence == "lorem ipsum dolor sit amet consectetur. "
Clause == "lorem ipsum dolor sit amet consectetur, "

\* n characters of running text, in sentences or without any terminator
fillText(n, punctuated) ==
    substring(Repeat(IF punctuated THEN Sentence ELSE Clause, n \div 40 + 1), 0, n)

\* a page of total characters that holds the selection after lead characters
pageAround(selectedText, lead, total, punctuated) ==
    substring(fillText(lead, punctuated) \o selectedText \o fillText(total, punctuated),
              0, total)

TokenProbes ==
    {[applied |-> FALSE,
      params |-> [apiKey |-> "sk-or-k", modelName |-> "m", style |-> "Simple",
                  selectedText |-> Repeat("S", n),
                  fullText |-> pageAround(Repeat("S", n), lead, total, punctuated)],
      snippet |-> "", articleSummary |-> "", estimatedTokens |-> 0, error |-> ""] :
        n \in SelectionLengths, lead \in LeadLengths, total \in PageLengths,
        punctuated \in BOOLEAN}

InitTokens ==
    /\ probe \in TokenProbes
    /\ SystemInit("tokens")

\* lines 284-331 of callGeminiAPIInternal
ApplyTokens ==
    /\ ~probe.applied
    /\ probe' = [probe EXCEPT
                    !.applied = TRUE,
                    !.snippet = substring(getRelevantContext(probe.params.fullText,
                                                             probe.params.selectedText),
                                          0, maxContextLength),
                    !.articleSummary = articleSummaryOf(probe.params.fullText),
                    !.estimatedTokens = estimatedTokensOf(probe.params),
                    !.error = inputError(probe.params)]
    /\ UNCHANGED <<explain, panel, profile, now, ticks, storage, configChanges, explanationCache,
                   nextSweep, rateLimit, runs, reqs, cacheOrigin, storedFor,
                   enqueueLog, dispatchLog, lastDone>>

NextTokens == ApplyTokens

SpecTokens == InitTokens /\ [][NextTokens]_vars

(***************************************************************************)
(* Properties.                                                             *)
(***************************************************************************)
tripleOf(r) == <<r.selectedText, r.style, r.modelName>>

FetchRuns == {k \in 1..Len(runs) : runs[k].phase = "fetch"}

IsPrefix(a, b) == Len(a) <= Len(b) /\ a = SubSeq(b, 1, Len(a))

\* A request that looked the cache up when its own triple had last been stored
\* `age` ms earlier was answered from the cache, without extraction or dispatch.
answeredFromCache(r) ==
    /\ r.pc = "done"
    /\ r.response = SuccessResponse(r.seenData, TRUE)
    /\ r.extractions = 0
    /\ ~r.enqueued

\* C1: once a request for (selectedText, style) under model m has stored its
\* result at time t, every later request with the same triple whose lookup
\* happens while now - t is within the TTL (now - t <= CACHE_TTL) is answered
\* {success, stored value, cached: true} with no extraction and no dispatch.
C1_HitWithinTTL ==
    \A id \in RequestIds :
        (reqs[id].seenAge >= 0 /\ reqs[id].seenAge <= CACHE_TTL)
            => answeredFromCache(reqs[id])

\* The same for lookups strictly inside the window (now - t < CACHE_TTL).
HitStrictlyWithinTTL ==
    \A id \in RequestIds :
        (reqs[id].seenAge >= 0 /\ reqs[id].seenAge < CACHE_TTL)
            => answeredFromCache(reqs[id])

HitStrictlyWithinTTL_Witness ==
    \E id \in RequestIds :
        /\ reqs[id].seenAge > 0
        /\ reqs[id].seenAge < CACHE_TTL
        /\ reqs[id].response.cached

\* C2: a request is answered from the cache only with an entry that a request
\* with the same selectedText, style and modelId stored.
C2_HitOnlyOwnTriple ==
    \A id \in RequestIds :
        reqs[id].response.cached => reqs[id].hitOrigin = tripleOf(reqs[id])

\* C3: for the same selectedText and style, a request under model m2 is never
\* answered with the entry stored under another model m1.
C3_ModelSensitive ==
    \A id \in RequestIds :
        (/\ reqs[id].response.cached
         /\ reqs[id].hitOrigin[1] = reqs[id].selectedText
         /\ reqs[id].hitOrigin[2] = reqs[id].style)
            => reqs[id].hitOrigin[3] = reqs[id].modelName

\* a request under m2 missed and went on to extraction while the entry another
\* request stored for the same text and style under m1 was still fresh
C3_Witness ==
    \E id \in RequestIds :
        /\ reqs[id].pc = "extract"
        /\ \E k \in DOMAIN explanationCache :
              /\ cacheOrigin[k][1] = reqs[id].selectedText
              /\ cacheOrigin[k][2] = reqs[id].style
              /\ cacheOrigin[k][3] # reqs[id].modelName
              /\ now - explanationCache[k].timestamp < CACHE_TTL

\* C4: a request whose selectedText is empty or has 1000 or more characters
\* is rejected with an error before any extraction starts and before anything
\* is enqueued.
C4_BadSelectionRejected ==
    \A id \in RequestIds :
        (/\ reqs[id].pc # "idle"
         /\ reqs[id].selectedText = "" \/ Len(reqs[id].selectedText) >= 1000)
            => /\ reqs[id].extractions = 0
               /\ ~reqs[id].enqueued
               /\ reqs[id].pc = "done" => reqs[id].response.status = "error"

\* the dispatches that have a predecessor: the one completed last and those in flight
startedAfter(d) == d.prevEnd # -1

\* C5: a dispatch starts no earlier than minRequestInterval after the previous
\* dispatch completed, whatever the outcome of the previous dispatch.
C5_MinInterval ==
    /\ (lastDone.req # 0 /\ startedAfter(lastDone))
          => lastDone.start >= lastDone.prevEnd + minRequestInterval
    /\ \A k \in FetchRuns :
          startedAfter(runs[k]) => runs[k].start >= runs[k].prevEnd + minRequestInterval

\* The same after a dispatch that resolved.
MinIntervalAfterSuccess ==
    /\ (lastDone.req # 0 /\ startedAfter(lastDone) /\ lastDone.prevOk)
          => lastDone.start >= lastDone.prevEnd + minRequestInterval
    /\ \A k \in FetchRuns :
          (startedAfter(runs[k]) /\ runs[k].prevOk)
              => runs[k].start >= runs[k].prevEnd + minRequestInterval

\* C6: after every completed dispatch, resolved or rejected,
\* rateLimit.lastRequestTime is the completion time of that dispatch.
C6_TimestampAfterEveryDispatch ==
    lastDone.req # 0 => rateLimit.lastRequestTime = lastDone.end

\* C7: at most one dispatch (one fetch) is in flight.
C7_SingleInFlight == Cardinality(FetchRuns) <= 1

\* a dispatch is in flight while two further requests wait in the queue
C7_Witness ==
    /\ Cardinality(FetchRuns) = 1
    /\ Len(rateLimit.queue) >= 2

\* C8: requests are dispatched in the order callGeminiAPI queued them, and a
\* dispatch starts only after every earlier dispatch has completed.
C8_Fifo ==
    /\ IsPrefix(dispatchLog, enqueueLog)
    /\ \A i \in 1..(Len(dispatchLog) - 1) : reqs[dispatchLog[i]].pc = "done"

\* three requests were dispatched in an order that is not the order of their
\* arrival, the third after an earlier dispatch had completed
C8_Witness ==
    /\ Len(dispatchLog) = 3
    /\ dispatchLog[2] > dispatchLog[3]
    /\ \E k \in FetchRuns : runs[k].req = dispatchLog[3] /\ runs[k].prevEnd # -1

\* C9: within a dispatch the fetches carry max_tokens 1024, 768, 512 in this
\* order; the dispatch resolves at the first rung whose fetch succeeds and
\* issues no fetch for a later rung; so at most 3 fetches per dispatch.
C9_LadderOrder ==
    /\ \A k \in FetchRuns :
          /\ IsPrefix(runs[k].fetches, outputTokenSteps)
          /\ Len(runs[k].fetches) = runs[k].rung
    /\ lastDone.req # 0 =>
          /\ IsPrefix(lastDone.fetches, outputTokenSteps)
          /\ lastDone.ok =>
                /\ lastDone.okRung = Len(lastDone.fetches)
                /\ Len(lastDone.errs) = lastDone.okRung - 1

\* rungs 1024 and 768 failed, 512 succeeded, and the dispatch resolved there
C9_Witness ==
    /\ lastDone.ok
    /\ lastDone.fetches = <<1024, 768, 512>>
    /\ Len(lastDone.errs) = 2
    /\ reqs[lastDone.req].response.status = "success"

\* C10: a failed ladder attempt is followed by the next lower rung; a failure
\* of the ladder reaches the caller only after all three rungs have failed,
\* and it is the error of the last rung.
C10_LadderExhaustion ==
    /\ \A k \in FetchRuns : runs[k].rung = Len(runs[k].errs) + 1
    /\ (lastDone.req # 0 /\ ~lastDone.ok /\ Len(lastDone.errs) > 0) =>
          /\ Len(lastDone.errs) = Len(outputTokenSteps)
          /\ lastDone.message = lastDone.errs[Len(outputTokenSteps)]
          /\ reqs[lastDone.req].response = ErrorResponse(lastDone.errs[Len(outputTokenSteps)])

\* three fetches failed for different reasons and the last error was surfaced
C10_Witness ==
    /\ lastDone.req # 0
    /\ ~lastDone.ok
    /\ Len(lastDone.fetches) = 3
    /\ lastDone.errs[1] # lastDone.errs[3]
    /\ lastDone.errs[2] # lastDone.errs[3]
    /\ reqs[lastDone.req].response.message = lastDone.errs[3]

\* C11: a request answered with the validation error ("Response appears
\* incomplete") is answered so only after its dispatch went down every rung of
\* the output-token ladder: the upstream text that failed validation was
\* retried on the lower rungs.
C11_ValidationRetriesLowerRung ==
    \A id \in RequestIds :
        (/\ reqs[id].pc = "done"
         /\ reqs[id].response.message = "Response appears incomplete"
         /\ lastDone.req = id)
        => Len(lastDone.fetches) = Len(outputTokenSteps)

\* withRetry's defaults (line 118): maxRetries = 3, baseDelay = 1000
maxRetries == 3
baseDelay == 1000

dispatchesOf(id) == Cardinality({i \in 1..Len(dispatchLog) : dispatchLog[i] = id})

\* C12: a request is answered with the input-too-large error ("Input too
\* long. ...") only after the prompt-build-and-dispatch cycle has been tried
\* maxRetries (3) times for it.
C12_InputTooLargeRetried ==
    \A id \in RequestIds :
        (/\ reqs[id].pc = "done"
         /\ startsWith(reqs[id].response.message, "Input too long."))
        => dispatchesOf(id) = maxRetries

\* C13: when the first outbound call of a dispatch was aborted by the 45 s
\* timer, the call that retries it starts no earlier than baseDelay * 2^0
\* after the abort, i.e. at least FETCH_TIMEOUT + baseDelay after the
\* dispatch started.
C13_AbortRetriedAfterBackoff ==
    \A k \in 1..Len(runs) :
        (/\ runs[k].phase = "fetch"
         /\ runs[k].rung = 2
         /\ runs[k].errs = <<fetchError(FetchFailed("abort"))>>)
        => runs[k].fetchStart - runs[k].start >= FETCH_TIMEOUT + baseDelay

\* what the text under test is expected to yield, from how it was built
probeWords == IF probe.words = 0 /\ probe.ending # "" THEN 1 ELSE probe.words
probeTrimmed == wordsText(probe.words, probe.sep) \o probe.ending
probeAccepted ==
    /\ probeTrimmed # ""
    /\ IF probe.style = "Simple" THEN probeWords >= 15 /\ probeWords <= 150
       ELSE probeWords >= 30
    /\ ~(probe.ending = "..")

\* C14: validateResponse(text, style) accepts exactly when the trimmed text is
\* non-empty, has 15..150 words (Simple) or at least 30 words (Technical) and
\* does not end in ".." that is not "..."; it then returns the trimmed text,
\* and otherwise throws; whether the text ends a sentence properly plays no part.
C14_ValidateAccepts ==
    probe.applied =>
        /\ probe.result.ok <=> probeAccepted
        /\ probe.result.ok => probe.result.value = probeTrimmed
        /\ ~probe.result.ok => probe.result.message # ""

\* a padded Simple text of 15 words without any sentence ending was accepted
C14_Witness ==
    /\ probe.applied
    /\ probe.result.ok
    /\ probe.words = 15 /\ probe.ending = "" /\ probe.pad # "" /\ probe.style = "Simple"

queuedRequests == {rateLimit.queue[i].req : i \in 1..Len(rateLimit.queue)}
fetchingRequests == {runs[k].req : k \in FetchRuns}

\* C15: no failure leaves a getExplanation request without a structured
\* response.  A request that is over was answered exactly once, with a success
\* or with {status: 'error', message: <non-empty string>}; a request that is
\* not over was not answered and is still waiting for something that will
\* settle: a storage read, the page extraction, or its dispatch (it is queued
\* behind a live processQueue activation, or its fetch is in flight).
C15_EveryFailureAnswered ==
    \A id \in RequestIds :
        LET r == reqs[id]
        IN  /\ r.pc = "done" =>
                /\ r.sent = 1
                /\ r.response.status \in {"success", "error"}
                /\ r.response.status = "error" => r.response.message # ""
            /\ r.pc # "done" => r.sent = 0 /\ r.response = NoResponse
            /\ r.pc = "awaitApi" =>
                \/ id \in queuedRequests /\ Len(runs) > 0
                \/ id \in fetchingRequests

\* one request failed at the config read, the other one in response validation
\* after its dispatch, and both were answered with an error
C15_Witness ==
    \E i, j \in RequestIds :
        /\ reqs[i].pc = "done" /\ reqs[i].response = ErrorResponse(StorageRejected.message)
        /\ reqs[j].pc = "done" /\ reqs[j].response = ErrorResponse("Response appears incomplete")
        /\ lastDone.req = j /\ lastDone.ok

finishes(id) == reqs[id].pc # "done" /\ reqs'[id].pc = "done"

\* every entry holds a text that validateResponse returns unchanged for the
\* style of the request that stored it, and that request was answered with it
cacheHoldsValidated ==
    \A key \in DOMAIN explanationCache :
        LET entry == explanationCache[key]
            origin == cacheOrigin[key]
        IN  /\ validateResponse(entry.data, origin[2]) = Returned(entry.data)
            /\ \E id \in RequestIds :
                  /\ tripleOf(reqs[id]) = origin
                  /\ reqs[id].response = SuccessResponse(entry.data, FALSE)

\* a step in which requests end, all of them in an error result
endsInErrorOnly ==
    /\ \E id \in RequestIds : finishes(id)
    /\ \A id \in RequestIds : finishes(id) => reqs'[id].response.status = "error"

\* C16: the cache is written only after validateResponse accepted the text:
\* every cache entry always holds a validated (trimmed, accepted) explanation,
\* and a step in which a request ends in an error result leaves the cache map
\* unchanged.
C16_CacheOnlyValidated ==
    /\ []cacheHoldsValidated
    /\ [][endsInErrorOnly => explanationCache' = explanationCache]_vars

\* an entry is cached while another request, whose upstream text failed
\* validation, was answered with an error
C16_Witness ==
    /\ DOMAIN explanationCache # {}
    /\ \E id \in RequestIds :
          /\ reqs[id].pc = "done"
          /\ reqs[id].response = ErrorResponse("Response appears incomplete")

\* the key request id looks up when its second storage read resolves
lookupKey(id) == cacheKey(reqs[id].selectedText, reqs[id].style, storage.modelName)

\* a step in which request id, with credential and model configured, does its
\* cache lookup and finds an entry with now - timestamp > TTL
findsExpired(id) ==
    /\ reqs[id].pc = "getModelName" /\ reqs'[id].pc # "getModelName"
    /\ reqs[id].apiKey # "" /\ storage.modelName # ""
    /\ lookupKey(id) \in DOMAIN explanationCache
    /\ now - explanationCache[lookupKey(id)].timestamp > CACHE_TTL

\* C17: a lookup that finds an entry with now - createdAt > TTL, swept or not,
\* is a miss: the request is not answered from the cache and goes on to the
\* page extraction.
C17_ExpiredIsMiss ==
    [][\A id \in RequestIds :
          findsExpired(id) =>
              /\ reqs'[id].pc = "extract"
              /\ reqs'[id].response = NoResponse
              /\ reqs'[id].extractions = reqs[id].extractions + 1]_vars

\* a request is extracting the page after its lookup found the entry that its
\* own triple had stored more than TTL before, and the entry is still in the map
C17_Witness ==
    \E id \in RequestIds :
        /\ reqs[id].pc = "extract"
        /\ reqs[id].seenAge > CACHE_TTL
        /\ cacheKey(reqs[id].selectedText, reqs[id].style, reqs[id].modelName)
              \in DOMAIN explanationCache
        /\ now - explanationCache[cacheKey(reqs[id].selectedText, reqs[id].style,
                                           reqs[id].modelName)].timestamp = reqs[id].seenAge

\* a step in which the setInterval callback runs
sweepRuns == nextSweep' # nextSweep

\* C18: a run of the periodic sweep removes every entry with
\* now - timestamp > TTL and leaves every other entry as it was (same key, data
\* and timestamp), adding none; so right after it no entry older than TTL is
\* in the map.
C18_SweepFrame ==
    [][sweepRuns =>
          /\ DOMAIN explanationCache' \subseteq DOMAIN explanationCache
          /\ \A key \in DOMAIN explanationCache :
                IF now - explanationCache[key].timestamp > CACHE_TTL
                THEN key \notin DOMAIN explanationCache'
                ELSE /\ key \in DOMAIN explanationCache'
                     /\ explanationCache'[key] = explanationCache[key]
          /\ \A key \in DOMAIN explanationCache' :
                ~(now' - explanationCache'[key].timestamp > CACHE_TTL)]_vars

\* a sweep has run; an entry that had been stored is gone, and an entry whose
\* age is exactly the TTL is still there
C18_Witness ==
    /\ nextSweep > StartTime + SWEEP_INTERVAL
    /\ \E triple \in DOMAIN storedFor :
          cacheKey(triple[1], triple[2], triple[3]) \notin DOMAIN explanationCache
    /\ \E key \in DOMAIN explanationCache :
          now - explanationCache[key].timestamp = CACHE_TTL

\* C19: a lookup that finds an expired entry removes it from the cache (lazy
\* eviction on lookup).
C19_LazyEviction ==
    [][\A id \in RequestIds :
          findsExpired(id) => lookupKey(id) \notin DOMAIN explanationCache']_vars

\* requests i and j ask for the same (selectedText, style, model) and both
\* missed the cache and were handed to callGeminiAPI
bothMissed(i, j) ==
    /\ i # j
    /\ tripleOf(reqs[i]) = tripleOf(reqs[j])
    /\ reqs[i].enqueued /\ reqs[j].enqueued

\* C20: identical requests in flight are not de-duplicated.  Whenever two
\* requests for the same (selectedText, style, model) have both missed the
\* cache, each of them has a dispatch of its own: it is waiting in the queue
\* or its dispatch was started, once, and no dispatch is shared.
C20_NoDeduplication ==
    \A i, j \in RequestIds :
        bothMissed(i, j) =>
            /\ i \in queuedRequests \/ dispatchesOf(i) = 1
            /\ j \in queuedRequests \/ dispatchesOf(j) = 1

\* the second request did its lookup when nothing had been stored for the
\* triple yet; both were dispatched, the first one first, and both were
\* answered with an upstream (uncached) explanation
C20_Witness ==
    \E i, j \in RequestIds :
        /\ bothMissed(i, j)
        /\ enqueueLog = <<i, j>>
        /\ dispatchLog = <<i, j>>
        /\ reqs[i].response.status = "success" /\ ~reqs[i].response.cached
        /\ reqs[j].response.status = "success" /\ ~reqs[j].response.cached
        /\ reqs[j].seenAge = -1

\* request id has read both settings and found the credential or the model
\* identifier absent
configAbsent(id) ==
    /\ reqs[id].pc \in {"extract", "awaitApi", "done"}
    /\ reqs[id].apiKey = "" \/ reqs[id].modelName = ""

\* C21: a request that finds the API credential or the model identifier
\* absent ends with an error result, once, without a cache hit, a page
\* extraction, an enqueueing or an outbound call.
C21_ConfigAbsentFailsFast ==
    \A id \in RequestIds :
        configAbsent(id) =>
            /\ reqs[id].pc = "done"
            /\ reqs[id].response.status = "error"
            /\ reqs[id].sent = 1
            /\ reqs[id].hitOrigin = <<>>
            /\ reqs[id].extractions = 0
            /\ ~reqs[id].enqueued
            /\ id \notin queuedRequests
            /\ dispatchesOf(id) = 0

\* a request found the credential absent and was answered with an error while
\* the cache held a fresh entry for its selectedText, style and model
C21_Witness ==
    \E id \in RequestIds :
        /\ reqs[id].pc = "done"
        /\ reqs[id].apiKey = "" /\ reqs[id].modelName # ""
        /\ reqs[id].response.status = "error"
        /\ cacheHit(explanationCache,
                    cacheKey(reqs[id].selectedText, reqs[id].style, reqs[id].modelName), now)

\* C22: when getVisibleText returned one of its failure sentinels, nothing is
\* enqueued or dispatched upstream: no queued item and no dispatch in flight
\* carries a sentinel as its page text.
C22_SentinelNeverDispatched ==
    /\ \A i \in 1..Len(rateLimit.queue) : rateLimit.queue[i].params.fullText \notin Sentinels
    /\ \A k \in FetchRuns : runs[k].params.fullText \notin Sentinels

\* C23: a request whose style is not one of the known styles is rejected with
\* an error result before any extraction or dispatch.
C23_UnknownStyleRejected ==
    \A id \in RequestIds :
        (reqs[id].pc # "idle" /\ reqs[id].style \notin Styles) =>
            /\ reqs[id].extractions = 0
            /\ ~reqs[id].enqueued
            /\ reqs[id].response.status # "success"

\* C24: when some sentence of fullText holds selectedText (in any case),
\* getRelevantContext returns the sentences max(0, i-3) .. min(n-1, i+3)
\* joined, i being the index of the first such sentence.
C24_SentenceWindow ==
    (probe.applied /\ probe.family = "sentences") => probe.result = probe.expected

\* the selection is in sentences 5 and 8 of 10, and sentences 2 through 8
\* were returned: sentence 1 and sentence 9 are not in the result
C24_Witness ==
    /\ probe.applied /\ probe.family = "sentences"
    /\ probe.n = 10 /\ probe.first = 5
    /\ includes(probe.fullText, "s8 has") 
    /\ startsWith(probe.result, "s2 is plain.") /\ endsWith(probe.result, "s8 has MuTex.")

\* C25: when no sentence holds selectedText, getRelevantContext returns
\* fullText[max(0, k-600), min(len, k+|selectedText|+600)), k being the first
\* occurrence of selectedText in fullText in any case, and the first 800
\* characters of fullText when selectedText does not occur at all.
C25_CharWindow ==
    (probe.applied /\ probe.family \in {"window", "absent"}) =>
        probe.result = probe.expected

\* the selection occurs twice outside the sentences, more than 600 characters
\* from either end of the page, and 600 characters on each side of its first
\* occurrence were returned
C25_Witness ==
    /\ probe.applied /\ probe.family = "window"
    /\ probe.first > 600
    /\ Len(probe.fullText) > probe.first + Len(probe.selectedText) + 600
    /\ Len(probe.result) = Len(probe.selectedText) + 1200
    /\ toLowerCase(SubSeq(probe.result, 601, 600 + Len(probe.selectedText)))
          = toLowerCase(probe.selectedText)

\* C26: when selectedText occurs in fullText, the snippet put into the prompt
\* (the context after the cap of maxContextLength characters) is at most 1500
\* characters long and holds the occurrence of selectedText.
C26_SnippetHoldsSelection ==
    (probe.applied /\ probe.family \in {"sentences", "window"}) =>
        /\ Len(probe.snippet) <= maxContextLength
        /\ includesIgnoreCase(probe.snippet, probe.selectedText)

\* a step in which the trigger icon is activated
activates == Len(panel'.activatedWith) = Len(panel.activatedWith) + 1

\* C27: every activation of the trigger icon gets a fetchExplanation message
\* with the current selection to the panel, whether the panel is closed or
\* open: the message is posted at once when the iframe has loaded, and is
\* left pending for the load otherwise.
C27_ActivationDelivers ==
    [][activates =>
          IF panel.isLoaded
          THEN panel'.delivered = Append(panel.delivered, panel.lastSelection)
          ELSE panel'.pendingMessage = panel.lastSelection]_vars

\* the three return paths with more than 2000 characters to return
longWalk ==
    /\ probe.page.hasTarget /\ ~probe.page.outerThrows /\ probe.page.throwsAt = 0
    /\ probe.page.nodes = <<WordyText, WordyText, "unread">>
longWalkerFallback ==
    /\ probe.page.hasTarget /\ ~probe.page.outerThrows /\ probe.page.throwsAt = 1
    /\ probe.page.targetText = PaddedText
longOuterFallback ==
    /\ probe.page.hasTarget /\ probe.page.outerThrows /\ probe.page.hasBody
    /\ probe.page.bodyText = PaddedText

\* C28: the page text never exceeds 2000 characters: getVisibleText returns
\* at most 2000 characters on every return path, and the handler passes at
\* most the first 2000 characters as fullText.
C28_PageTextCapped ==
    probe.applied /\ profile = "extract" =>
        /\ Len(probe.result) <= 2000
        /\ Len(probe.fullText) <= 2000
        /\ probe.fullText = probe.result
        /\ (longWalk \/ longWalkerFallback \/ longOuterFallback
               => Len(probe.result) = 2000)

C28_Witness ==
    /\ probe.applied /\ profile = "extract"
    /\ longWalk
    /\ Len(probe.result) = 2000
    /\ probe.result = SubSeq(WordyText \o WordyText, 1, 2000)

\* the invocations of the operation that failed, and those that resolved
failedCalls == {k \in 1..Len(probe.log) : ~probe.log[k].outcome.ok}
resolvedCalls == {k \in 1..Len(probe.log) : probe.log[k].outcome.ok}

\* C29: withRetry invokes the operation at most maxRetries times, returns
\* the first successful result without any further invocation, waits
\* baseDelay * 2^(k-1) after the k-th failed attempt for k < maxRetries, does
\* not wait after the final failed attempt, and then throws the error of
\* the last attempt.
C29_RetryContract ==
    profile = "retry" =>
        /\ Len(probe.log) <= probe.maxRetries
        /\ \A k \in resolvedCalls :
              /\ k = Len(probe.log)
              /\ probe.phase = "returned"
              /\ probe.result = probe.log[k].outcome.value
        /\ Len(probe.waits) = Min(Cardinality(failedCalls), probe.maxRetries - 1)
        /\ \A k \in 1..Len(probe.waits) :
              probe.waits[k] = probe.baseDelay * 2 ^ (k - 1)
        /\ probe.phase = "threw" =>
              /\ Len(probe.log) = probe.maxRetries
              /\ probe.lastError = probe.log[Len(probe.log)].outcome.message

\* the failures so far that are identified as token-limit-exceeded
tokenLimitFailures ==
    Cardinality({k \in failedCalls :
                    includes(probe.log[k].outcome.message, "Token limit exceeded")})

foreignKey(key) == key # "" /\ ~startsWith(key, "sk-or-")

\* C31: a request whose API credential does not start with 'sk-or-' ends in
\* an error result, and no outbound call is issued for it on any rung.
C31_ForeignKeyNeverFetched ==
    /\ \A k \in FetchRuns : ~foreignKey(runs[k].params.apiKey)
    /\ \A id \in RequestIds :
          foreignKey(reqs[id].apiKey) =>
              /\ lastDone.req = id => lastDone.fetches = <<>> /\ ~lastDone.ok
              /\ reqs[id].pc = "done" => reqs[id].response.status = "error"

\* an activation of processQueue is waiting for its timer or for its dispatch
drainInProgress == runs # <<>>

dispatched(id) == \E k \in 1..Len(dispatchLog) : dispatchLog[k] = id

\* C32: the queue never stalls: whenever the queue is non-empty a drain is in
\* progress, the processing flag is set exactly while a drain is in progress
\* (it is reset after every dispatch, resolved or rejected), and every
\* enqueued request is eventually dequeued and dispatched.
C32_QueueNeverStalls ==
    /\ [](Len(rateLimit.queue) > 0 => rateLimit.processing)
    /\ [](rateLimit.processing <=> drainInProgress)
    /\ \A id \in RequestIds : reqs[id].enqueued ~> dispatched(id)

\* a request waited in the queue behind a dispatch that was rejected, and
\* was dispatched after it
C32_Witness ==
    /\ Len(dispatchLog) >= 2
    /\ lastDone.req = dispatchLog[Len(dispatchLog)]
    /\ ~lastDone.prevOk /\ lastDone.prevEnd >= 0
    /\ \E i \in 1..Len(enqueueLog) :
          /\ enqueueLog[i] = lastDone.req
          /\ i >= 2
    /\ ~rateLimit.processing

\* the handler of request id has started and has not answered yet
unanswered(id) == reqs[id].pc \notin {"idle", "done"}

\* C33: every getExplanation request eventually receives exactly one
\* response: sendResponse is never called twice, a request is done exactly
\* when it has been answered once, and every request that was received is
\* answered in the end, on the cache-hit, success and error paths alike.
C33_ExactlyOneResponse ==
    /\ [](\A id \in RequestIds :
            /\ reqs[id].sent <= 1
            /\ reqs[id].pc = "done" <=> reqs[id].sent = 1)
    /\ \A id \in RequestIds :
          unanswered(id) ~> (reqs[id].pc = "done" /\ reqs[id].sent = 1)

\* one request answered after a rejected dispatch, the other from the cache
\* or after a resolved dispatch
C33_Witness ==
    \E a, b \in RequestIds :
        /\ reqs[a].pc = "done" /\ reqs[a].enqueued /\ reqs[a].response.status = "error"
        /\ reqs[b].pc = "done" /\ reqs[b].response.status = "success"
        /\ reqs[a].sent = 1 /\ reqs[b].sent = 1

ceil4(n) == (n + 3) \div 4

\* C34: for a selection shorter than 1000 characters and a fullText of at
\* most 2000, the estimate ceil(|snippet|/4) + ceil(|selectedText|/4) +
\* ceil(|summary|/4) + 150, with the snippet capped at 1500 and the summary
\* at 400, never exceeds 1200, and 'Input too long' is never raised.
C34_TokenGuardNeverFires ==
    probe.applied /\ profile = "tokens" =>
        /\ Len(probe.snippet) <= 1500
        /\ Len(probe.articleSummary) <= 400
        /\ probe.estimatedTokens = ceil4(Len(probe.snippet))
                                     + ceil4(Len(probe.params.selectedText))
                                     + ceil4(Len(probe.articleSummary)) + 150
        /\ probe.estimatedTokens <= 1200
        /\ probe.error = ""

\* the largest estimate: a 999-character selection, a snippet of 1500 and a
\* summary of 400 characters
C34_Witness ==
    /\ probe.applied /\ profile = "tokens"
    /\ Len(probe.params.selectedText) = 999
    /\ Len(probe.params.fullText) = 2000
    /\ Len(probe.snippet) = 1500
    /\ Len(probe.articleSummary) = 400
    /\ probe.estimatedTokens = 875

\* the keys whose entry is written in this step
keysWritten ==
    {key \in DOMAIN explanationCache' :
        key \notin DOMAIN explanationCache \/ explanationCache'[key] # explanationCache[key]}

\* C35: the value stored under a cache key comes from a dispatch that used
\* the selectedText, style and modelName the key was built from, also when
\* the stored model identifier or credential changes while the request waits
\* in the queue or is in flight: the request keeps the configuration read at
\* its start.
C35_KeyMatchesDispatch ==
    [][\A key \in keysWritten :
          \E k \in FetchRuns :
              /\ runs[k].req = lastDone'.req /\ lastDone'.ok
              /\ key = cacheKey(runs[k].params.selectedText, runs[k].params.style,
                                runs[k].params.modelName)
              /\ cacheOrigin'[key] = <<runs[k].params.selectedText, runs[k].params.style,
                                       runs[k].params.modelName>>
              /\ runs[k].params.modelName = reqs[runs[k].req].modelName
              /\ runs[k].params.apiKey = reqs[runs[k].req].apiKey
              /\ validateResponse(explanationCache'[key].data, runs[k].params.style)
                    = Returned(explanationCache'[key].data)]_vars

\* a request stored its result after the model identifier had been changed
\* in the settings since the request read it
C35_Witness ==
    \E id \in RequestIds :
        /\ reqs[id].pc = "done" /\ reqs[id].response.status = "success"
        /\ ~reqs[id].response.cached
        /\ reqs[id].storedWhile # reqs[id].modelName
        /\ cacheKey(reqs[id].selectedText, reqs[id].style, reqs[id].modelName)
              \in DOMAIN explanationCache

\* response.choices[0] of a body without choices: the TypeError of line 519
MissingChoicesMessage == "Cannot read properties of undefined (reading '0')"

\* request id is answered in this step with that error
answersMissingChoices(id) ==
    /\ reqs[id].pc # "done"
    /\ reqs'[id].response = ErrorResponse(MissingChoicesMessage)

\* C36: a 2xx answer with well-formed JSON that lacks
\* choices[0].message.content counts as a successful dispatch (the rung that
\* got it is the last one tried, lastRequestTime is updated), the request
\* ends with a structured error result, and the cache is left unchanged.
C36_MissingChoices ==
    [][\A id \in RequestIds :
          answersMissingChoices(id) =>
              /\ lastDone'.req = id /\ lastDone'.ok
              /\ lastDone'.okRung = Len(lastDone'.fetches)
              /\ \A k \in 1..Len(runs') : runs'[k].req # id
              /\ rateLimit'.lastRequestTime = now
              /\ reqs'[id].pc = "done" /\ reqs'[id].sent = 1
              /\ reqs'[id].response.status = "error"
              /\ explanationCache' = explanationCache]_vars

\* such an answer came on the second rung, after the first rung had failed
C36_Witness ==
    \E id \in RequestIds :
        /\ reqs[id].pc = "done"
        /\ reqs[id].response = ErrorResponse(MissingChoicesMessage)
        /\ lastDone.req = id /\ lastDone.ok
        /\ lastDone.fetches = <<1024, 768>> /\ lastDone.okRung = 2
        /\ rateLimit.lastRequestTime = lastDone.end
        /\ explanationCache = EmptyMap

\* the display shows the outcome (a result or an error) of some fetch
outcomeShown(e) == e.display.kind \in {"result", "error"}

\* what fetch f asked the background service for
requested(e, f) == <<e.fetches[f].selectedText, e.fetches[f].style>>

\* C37: the explanation shown always corresponds to the most recently
\* requested (selectedText, style): once the outcome of a later fetch has
\* been shown, the answer to an earlier fetch for another text or style
\* never replaces it.
C37_NoStaleOverwrite ==
    [][outcomeShown(explain) /\ explain'.display.kind = "result"
            /\ explain'.display.fetch < explain.display.fetch
          => requested(explain', explain'.display.fetch)
                = <<explain'.currentSelectedText, explain'.currentStyle>>]_vars

\* the fetches whose 45 s timer fired before the background service answered
timedOutFetches(e) ==
    {f \in 1..Len(e.fetches) : e.fetches[f].phase = "timedOut" /\ e.fetches[f].unanswered}

\* the panel reports a timeout in this step
panelTimesOut == timedOutFetches(explain') # timedOutFetches(explain)

\* the request of a fetch that timed out succeeded and its result is stored
storedAfterTimeout(f) ==
    LET r == reqs[explain.fetches[f].req]
    IN  (r.pc = "done" /\ r.response.status = "success" /\ ~r.response.cached)
            => /\ tripleOf(r) \in DOMAIN storedFor
               /\ validateResponse(r.response.data, r.style) = Returned(r.response.data)

\* request id looked the cache up within the TTL of an entry that was stored
\* by the request of a fetch that had timed out
looksUpAfterTimeout(id) ==
    /\ reqs[id].seenAge >= 0 /\ reqs[id].seenAge <= CACHE_TTL
    /\ \E f \in timedOutFetches(explain) :
          /\ explain.fetches[f].req # id
          /\ tripleOf(reqs[explain.fetches[f].req]) = tripleOf(reqs[id])
          /\ reqs[explain.fetches[f].req].response = SuccessResponse(reqs[id].seenData, FALSE)

\* C38: the panel's 45-second wait does not cancel the background request:
\* when the panel reports a timeout the background state is untouched, the
\* request runs on, a success is validated and stored, and a later identical
\* request within the TTL is answered as a cache hit.
C38_TimeoutDoesNotCancel ==
    /\ [][panelTimesOut => /\ reqs' = reqs /\ runs' = runs /\ rateLimit' = rateLimit
                           /\ explanationCache' = explanationCache]_vars
    /\ [](\A f \in timedOutFetches(explain) : storedAfterTimeout(f))
    /\ [](\A id \in RequestIds : looksUpAfterTimeout(id) => answeredFromCache(reqs[id]))

=============================================================================
